---- MODULE Spec2Model ----
(***************************************************************************)
(* Turkish Check Analyzer: the client pipeline of src/App.tsx (model       *)
(* registry, sequential batch upload, result aggregation, error state,     *)
(* render conditions) and the paginated report renderer of src/App.tsx     *)
(* and pages/ReportPage.tsx (src/unnamed/part_002).                        *)
(*                                                                         *)
(* React state is modelled by the value the last setState call left.  An   *)
(* async handler is a task record in `tasks`: its closure values and the   *)
(* await it is suspended at.  One action is the code that runs between     *)
(* two awaits.                                                             *)
(***************************************************************************)
EXTENDS Integers, Sequences, FiniteSets, TLC

\* ------------------------------------------------------------------ bounds
MaxFiles  == 3      \* longest batch dropped on the upload control
NumModels == 1      \* models the Ollama backend may list

\* the files of a drop are named by their position in it
FileIds    == 1..MaxFiles
ModelNames == 1..NumModels

\* a drop or a file-dialog change delivers a non-empty file list: k
\* different files, or the same file twice
Batches == {[i \in 1..k |-> i] : k \in 1..MaxFiles} \cup {<<1, 1>>}

\* GET /api/ollama-models answers with the first k installed models
ModelLists == {[i \in 1..k |-> i] : k \in 0..NumModels}

\* ------------------------------------------------------------- data model
Null    == <<>>                                   \* JS null
NoError == [step |-> "null", message |-> <<>>]    \* error === null

ProcessingError(step, message) == [step |-> step, message |-> message]

\* FileReader.readAsDataURL(file)
DataUrl(f) == <<"data:image", f>>

\* ------------------------------------------------------ backend responses
Statuses == {500}

\* body of a non-2xx response: not JSON at all, or a JSON object whose
\* detail / message fields may be missing (Null)
ErrorBodies ==
  { [json |-> FALSE, detail |-> Null, message |-> Null],
    [json |-> TRUE,  detail |-> <<"Tesseract not found">>, message |-> Null],
    [json |-> TRUE,  detail |-> Null, message |-> <<"Model timeout">>],
    [json |-> TRUE,  detail |-> Null, message |-> Null] }

\* a rejected fetch(): the browser's TypeError message
NetworkErrorMessage == <<"Failed to fetch">>

\* POST /api/ocr-check 200 body for file f analysed with models ms.  The
\* backend's answer is a function of the image: for every second image
\* the first model reports a per-model error
LLMAnalysis(m, f, failed) ==
  [model_name |-> m,
   analysis   |-> IF failed THEN Null ELSE <<"analysis", f>>,
   error      |-> IF failed THEN <<"model error">> ELSE Null]

CheckAnalysisResponse(f, ms, firstFails) ==
  [raw_ocr_tesseract |-> <<"tesseract", f>>,
   raw_ocr_easyocr   |-> <<"easyocr", f>>,
   llm_analyses      |-> [k \in 1..Len(ms) |-> LLMAnalysis(ms[k], f, firstFails /\ k = 1)]]

OkResponses(f, ms) == {CheckAnalysisResponse(f, ms, f % 2 = 0)}

CheckResult_dropsFailed(img, data) ==
  [imageSrc     |-> img,
   ocrTesseract |-> data.raw_ocr_tesseract,
   ocrEasyOcr   |-> data.raw_ocr_easyocr,
   llmAnalyses  |-> SelectSeq(data.llm_analyses, LAMBDA a : a.error = <<>>)]
CheckResult(img, data) ==
  [imageSrc     |-> img,
   ocrTesseract |-> data.raw_ocr_tesseract,
   ocrEasyOcr   |-> data.raw_ocr_easyocr,
   llmAnalyses  |-> data.llm_analyses]

\* field keys given to formatKeyForPdf: every string of at most MaxKeyLen
\* characters of KeyChars, and the keys of the CheckDetails fields at hand
MaxKeyLen == 4
KeyChars == {"i", "b", "a", "n", "I", "B", "_", " "}
RECURSIVE StringsUpTo(_, _)
StringsUpTo(chars, n) ==
  IF n = 0 THEN {""}
  ELSE LET shorter == StringsUpTo(chars, n - 1)
       IN  shorter \cup {t \o c : t \in shorter, c \in chars}
FieldKeys == {"amount_number", "iban", "checkNumber", "IBAN", "bank_name"}
Keys == StringsUpTo(KeyChars, MaxKeyLen) \cup FieldKeys

\* error texts a backend or a browser may produce: the ones at hand and
\* every run of at most MaxWords of the fragments
MaxWords == 2
Fragments == {"Tesser", "ACT", "easy", "OCR", "ocr ", "Tool", "setup ", "INCOMPLETE", " not found"}
KnownTexts == {"Tesseract not found", "Model timeout", "Setup incomplete: OCR missing",
               "Failed to fetch", "pytesseract is not installed"}
MessageTexts == StringsUpTo(Fragments, MaxWords) \cup KnownTexts

\* non-2xx responses of either endpoint, and rejected fetches
AllStatuses == {404, 500}
AllBodies ==
  {[json |-> FALSE, detail |-> Null, message |-> Null]}
    \cup {[json |-> TRUE, detail |-> d, message |-> m] :
            d \in {Null} \cup {<<t>> : t \in MessageTexts},
            m \in {Null, <<"">>, <<"Model timeout">>, <<"pytesseract is not installed">>}}
Responses ==
  {[endpoint |-> e, rejected |-> FALSE, status |-> st, body |-> b, message |-> Null] :
     e \in {"models", "analysis"}, st \in AllStatuses, b \in AllBodies}
    \cup {[endpoint |-> e, rejected |-> TRUE, status |-> 0,
            body |-> [json |-> FALSE, detail |-> Null, message |-> Null],
            message |-> <<t>>] :
            e \in {"models", "analysis"}, t \in MessageTexts}

\* model analyses given to the renderers of the analysis section: the
\* entries of a CheckDetails object in insertion order, each key absent or
\* holding one of FieldValues (`side` is typed as a string)
LineChars == 5
Str(s) == [type |-> "string", s |-> s, n |-> 0]
Num(n) == [type |-> "number", s |-> "", n |-> n]
NullValue == [type |-> "null", s |-> "", n |-> 0]
UndefinedValue == [type |-> "undefined", s |-> "", n |-> 0]
SideValues == {NullValue, UndefinedValue, Str(""), Str("Unknown"), Str("Front")}
FieldValues == SideValues \cup {Num(0), Num(1250)}
AnalysisKeys == <<"side", "amount_number", "iban">>
RECURSIVE EntriesOver(_)
EntriesOver(keys) ==
  IF keys = <<>> THEN {<<>>}
  ELSE LET rest == EntriesOver(Tail(keys))
           values == IF Head(keys) = "side" THEN SideValues ELSE FieldValues
       IN  rest \cup {<<[key |-> Head(keys), value |-> v]>> \o r : v \in values, r \in rest}
ResultItems ==
  {[model_name |-> "llama3", error |-> e, hasAnalysis |-> TRUE, entries |-> a] :
     e \in {Null, <<"Model timeout">>}, a \in EntriesOver(AnalysisKeys)}
    \cup {[model_name |-> "llama3", error |-> e, hasAnalysis |-> FALSE, entries |-> <<>>] :
            e \in {Null, <<"Model timeout">>}}

\* values typed into the Ollama URL field, and what localStorage may hold
\* for it when a session starts
DefaultOllamaUrl == "http://localhost:11434"
UrlTexts == {"", "h", DefaultOllamaUrl, "http://ollama:11434", "http://10.0.0.5:11434"}
Item(value) == [present |-> TRUE, value |-> value]
NoStoredItem == [present |-> FALSE, value |-> ""]
StoredItems == {NoStoredItem} \cup {Item(u) : u \in UrlTexts}

\* ------------------------------------------------------------------ state
VARIABLES
  mounted,                \* the mount effect (useEffect [], App.tsx:846) has run
  isLoading,              \* useState isLoading
  error,                  \* useState error (NoError = null)
  showSetupModal,         \* useState showSetupModal
  availableOllamaModels,  \* useState availableOllamaModels (names)
  selectedOllamaModels,   \* useState selectedOllamaModels
  checkResults,           \* useState checkResults
  uploadedImage,          \* useState uploadedImage
  ocrTesseract,           \* useState ocrTesseract
  ocrEasyOcr,             \* useState ocrEasyOcr
  llmAnalyses,            \* useState llmAnalyses
  tasks,                  \* suspended async handlers (closure + await position)
  batchFiles,             \* history: files of the batch in progress
  log,                    \* history: per-file events of the batch in progress
  errorStale,             \* history: an operation started and left an older error set
  variant,                \* which renderer is running: "App" or "ReportPage"
  pdfPc,                  \* renderer: next section
  todo,                   \* renderer: layout instructions still to execute
  currentY,               \* renderer: cursor (mm)
  pageCount,              \* renderer: doc.getNumberOfPages()
  lastCheck,              \* history: the last checkAndAddNewPage call
  lastPlaced,             \* history: the last block placed at the cursor
  saved,                  \* renderer: doc.save was called
  isGeneratingPdf,        \* ReportPage: useState isGeneratingPdf
  statusType,             \* ReportPage: type of the last status update ("none": no update)
  key,                    \* formatKeyForPdf: the field key given
  labels,                 \* formatKeyForPdf: its result, then the result for that result
  response,               \* failure paths: the failed response (or rejected fetch) at hand
  errMessage,             \* failure paths: err.message, as handed to checkForSetupError
  renderer,               \* analysis section: which renderer, "App" or "ReportPage"
  resultItem,             \* analysis section: the entry of llmAnalyses being rendered
  fieldPos,               \* analysis section: 0 before the model line, else the next entry
  modelText,              \* analysis section: the text drawn for this model
  ollamaUrl,              \* useState ollamaUrl
  storage,                \* localStorage item "ollamaUrl"
  persistPending,         \* the effect on [ollamaUrl] is scheduled
  lastEdit,               \* history: the last value typed, in any session
  sessionStart,           \* history: the item at session start, and whether a value was typed since
  reportInput,            \* report outline: the data the renderer is given
  outlinePc,              \* report outline: next section
  outline,                \* report outline: the headings drawn so far
  reportAnalyses,         \* success rate: the llmAnalyses a renderer is given
  ratePc,                 \* success rate: next step of the renderer
  successfulAnalyses,     \* success rate: the entries counted as successful
  statusIcons,            \* success rate: the status drawn for each entry so far
  processingTimes,        \* timing: phase -> {start, end, duration}
  recordedFor,            \* timing, history: phase -> the file whose submission recorded it (0: model fetch)
  now,                    \* timing: the last value Date.now() returned
  timed                   \* timing: position in the run and the start times held in locals

appVars == <<mounted, isLoading, error, showSetupModal, availableOllamaModels,
             selectedOllamaModels, checkResults, uploadedImage, ocrTesseract,
             ocrEasyOcr, llmAnalyses, tasks, batchFiles, log, errorStale>>
reportVars == <<isGeneratingPdf, statusType>>
pdfVars == <<variant, pdfPc, todo, currentY, pageCount, lastCheck, lastPlaced, saved,
             reportVars>>
keyVars == <<key, labels>>
errVars == <<response, errMessage>>
fieldVars == <<renderer, resultItem, fieldPos, modelText>>
urlVars == <<ollamaUrl, storage, persistPending, lastEdit, sessionStart>>
outlineVars == <<reportInput, outlinePc, outline>>
rateVars == <<reportAnalyses, ratePc, successfulAnalyses, statusIcons>>
timeVars == <<processingTimes, recordedFor, now, timed>>
sideVars == <<keyVars, errVars, fieldVars, urlVars, outlineVars, rateVars, timeVars>>
vars    == <<appVars, pdfVars, sideVars>>

\* --------------------------------------------------------------- strings
\* JavaScript strings are TLA+ strings; Char(s, i) is s.charAt(i - 1)
Char(s, i) == SubSeq(s, i, i)
LowerLetters == "abcdefghijklmnopqrstuvwxyz"
UpperLetters == "ABCDEFGHIJKLMNOPQRSTUVWXYZ"
Digits == "0123456789"
IndexIn(c, s) == CHOOSE i \in 1..Len(s) : Char(s, i) = c
IsIn(c, s) == \E i \in 1..Len(s) : Char(s, i) = c

\* the regular-expression classes the code uses: [A-Z], \s, \w
IsCapital(c) == IsIn(c, UpperLetters)
IsSpace(c) == c = " "
IsWordChar(c) == IsIn(c, LowerLetters) \/ IsIn(c, UpperLetters) \/ IsIn(c, Digits) \/ c = "_"

\* String.prototype.toUpperCase / toLowerCase, one character
UpperChar(c) == IF IsIn(c, LowerLetters) THEN Char(UpperLetters, IndexIn(c, LowerLetters)) ELSE c
LowerChar(c) == IF IsIn(c, UpperLetters) THEN Char(LowerLetters, IndexIn(c, UpperLetters)) ELSE c

RECURSIVE toLowerCase(_)
toLowerCase(s) ==
  IF s = "" THEN "" ELSE LowerChar(Char(s, 1)) \o toLowerCase(SubSeq(s, 2, Len(s)))

\* String.prototype.trim
RECURSIVE trimStart(_)
trimStart(s) ==
  IF s # "" /\ IsSpace(Char(s, 1)) THEN trimStart(SubSeq(s, 2, Len(s))) ELSE s
RECURSIVE trimEnd(_)
trimEnd(s) ==
  IF s # "" /\ IsSpace(Char(s, Len(s))) THEN trimEnd(SubSeq(s, 1, Len(s) - 1)) ELSE s
trim(s) == trimEnd(trimStart(s))

\* String.prototype.includes
includes(s, part) ==
  \E i \in 1..(Len(s) - Len(part) + 1) : SubSeq(s, i, i + Len(part) - 1) = part

\* ---------------------------------------------------------------- helpers
Truthy(x) == x # Null /\ x # <<"">>

\* a message is kept as the parts of its template literal; Text is the
\* string they make
RECURSIVE Text(_)
Text(parts) == IF parts = <<>> THEN "" ELSE Head(parts) \o Text(Tail(parts))

\* the condition of checkForSetupError
IsSetupIssue_caseSensitive(errorMessage) ==
  LET m == Text(errorMessage)
  IN  \/ includes(m, "tesseract")
      \/ includes(m, "easyocr")
      \/ includes(m, "pytesseract")
      \/ includes(m, "ocr tool")
      \/ (includes(m, "setup") /\ includes(m, "incomplete"))
IsSetupIssue(errorMessage) ==
  LET lowerErrorMessage == toLowerCase(Text(errorMessage))
  IN  \/ includes(lowerErrorMessage, "tesseract")
      \/ includes(lowerErrorMessage, "easyocr")
      \/ includes(lowerErrorMessage, "pytesseract")
      \/ includes(lowerErrorMessage, "ocr tool")
      \/ (includes(lowerErrorMessage, "setup") /\ includes(lowerErrorMessage, "incomplete"))

\* detailMessage of fetchOllamaModels for a non-2xx response
FetchModelsDetail(status, body) ==
  LET errorData == IF body.json THEN body
                   ELSE [json |-> FALSE, message |-> Null,
                         detail |-> <<"Failed to fetch models (HTTP ", ToString(status),
                                      "). Is the backend server running?">>]
  IN  IF Truthy(errorData.detail) THEN errorData.detail
      ELSE <<"Failed to fetch models: ", ToString(status)>>

\* detailMessage of processSingleImage for a non-2xx response
AnalysisDetail_ignoresMessage(status, body) == FetchModelsDetail(status, body)
AnalysisDetail(status, body) ==
  LET errorData == IF body.json THEN body
                   ELSE [json |-> FALSE,
                         message |-> <<"Server error (HTTP ", ToString(status), ")">>,
                         detail |-> <<"Server error (HTTP ", ToString(status),
                                      "). Is the backend server running?">>]
  IN  IF Truthy(errorData.detail) THEN errorData.detail
      ELSE IF Truthy(errorData.message) THEN errorData.message
      ELSE <<"Server error: ", ToString(status)>>

\* the messages the two failure paths hand to checkForSetupError, and the
\* ones among them the condition holds for (evaluated once)
FailureMessages ==
  {FetchModelsDetail(status, body) : status \in Statuses, body \in ErrorBodies}
    \cup {AnalysisDetail(status, body) : status \in Statuses, body \in ErrorBodies}
    \cup {NetworkErrorMessage}
SetupIssueMessages == {m \in FailureMessages : IsSetupIssue(m)}

\* checkForSetupError(errorMessage): the value of showSetupModal afterwards
checkForSetupError_never(errorMessage, modal) == modal
checkForSetupError(errorMessage, modal) ==
  LET isSetupIssue == IF errorMessage \in FailureMessages
                      THEN errorMessage \in SetupIssueMessages
                      ELSE IsSetupIssue(errorMessage)
  IN  IF isSetupIssue THEN TRUE ELSE modal

\* setError in the catch block of fetchOllamaModels / processSingleImage
ModelFetchError(m) == ProcessingError("Model Fetch", m)
CheckProcessingError(m) ==
  ProcessingError("Check Processing", <<"Failed to process check: ">> \o m)

Includes(seq, x) == \E i \in 1..Len(seq) : seq[i] = x
Filter(seq, x)   == SelectSeq(seq, LAMBDA y : y # x)

\* ------------------------------------------------- controls (render props)
\* <ImageUpload disabled={isLoading || selectedOllamaModels.length === 0}>
UploadDisabled_ignoresLoading == selectedOllamaModels = <<>>
UploadDisabled == isLoading \/ selectedOllamaModels = <<>>

\* Check Connection button: disabled={isLoading}
RefreshDisabled == isLoading

\* <ModelSelector disabled={isLoading}>
SelectorDisabled_never == FALSE
SelectorDisabled == isLoading

\* {error && !showSetupModal && <ErrorMessage .../>}
ErrorPanelShown == error # NoError /\ ~showSetupModal

\* <SetupInstructionsModal isOpen={showSetupModal} .../>
SetupPanelShown == showSetupModal

\* {!isLoading && checkResults.length > 0 && !error && ...}
ResultsShown_ignoresError == ~isLoading /\ Len(checkResults) > 0
ResultsShown == ~isLoading /\ Len(checkResults) > 0 /\ error = NoError

\* ------------------------------------------------------------------- tasks
NoResult == [imageSrc |-> Null, ocrTesseract |-> Null, ocrEasyOcr |-> Null,
             llmAnalyses |-> Null]

\* an invocation of fetchOllamaModels suspended at `await fetch(...)`;
\* models is the selectedOllamaModels its closure captured
FetchTask(models) ==
  [kind |-> "fetch", files |-> <<>>, models |-> models, i |-> 0,
   pc |-> "fetching", result |-> NoResult]

\* an invocation of handleImagesUpload inside processSingleImage(files[i]):
\* pc = "reading"  at the await of the FileReader promise,
\* pc = "fetching" at the await of fetch(/api/ocr-check),
\* pc = "returned" at `await processSingleImage(file)` with its value in result
BatchTask(files, models, i, pc, result) ==
  [kind |-> "batch", files |-> files, models |-> models, i |-> i,
   pc |-> pc, result |-> result]

BatchTasks == {t \in tasks : t.kind = "batch"}
FetchTasks == {t \in tasks : t.kind = "fetch"}

\* analysis requests in flight
InFlight == {t \in BatchTasks : t.pc = "fetching"}

\* ------------------------------------------------------------ model fetch
\* fetchOllamaModels up to its await
fetchOllamaModels ==
  /\ isLoading' = TRUE
  /\ error' = NoError
  /\ errorStale' = FALSE
  /\ tasks' = tasks \cup {FetchTask(selectedOllamaModels)}
  /\ UNCHANGED <<showSetupModal, availableOllamaModels, selectedOllamaModels,
                 checkResults, uploadedImage, ocrTesseract, ocrEasyOcr,
                 llmAnalyses, batchFiles, log>>

\* useEffect(() => { fetchOllamaModels(); }, [])
MountEffect ==
  /\ ~mounted
  /\ mounted' = TRUE
  /\ fetchOllamaModels
  /\ UNCHANGED <<pdfVars, sideVars>>

\* click on "Check Connection"
ClickCheckConnection ==
  /\ mounted
  /\ ~RefreshDisabled
  /\ fetchOllamaModels
  /\ UNCHANGED <<mounted, pdfVars, sideVars>>

\* 200 response of GET /api/ollama-models
FetchModelsOk_neverSelects(t, models) ==
  /\ t \in FetchTasks
  /\ availableOllamaModels' = models
  /\ isLoading' = FALSE
  /\ tasks' = tasks \ {t}
  /\ UNCHANGED <<mounted, error, showSetupModal, selectedOllamaModels, checkResults,
                 uploadedImage, ocrTesseract, ocrEasyOcr, llmAnalyses, batchFiles, log,
                 errorStale, pdfVars, sideVars>>
FetchModelsOk(t, models) ==
  /\ t \in FetchTasks
  /\ availableOllamaModels' = models
  /\ selectedOllamaModels' =
       IF Len(models) > 0 /\ Len(t.models) = 0 THEN <<models[1]>>
       ELSE selectedOllamaModels
  /\ isLoading' = FALSE
  /\ tasks' = tasks \ {t}
  /\ UNCHANGED <<mounted, error, showSetupModal, checkResults, uploadedImage,
                 ocrTesseract, ocrEasyOcr, llmAnalyses, batchFiles, log,
                 errorStale, pdfVars, sideVars>>

\* the catch and finally blocks of fetchOllamaModels
FetchModelsCatch_clearsModels(t, errorMessage, modal) ==
  /\ error' = ModelFetchError(errorMessage)
  /\ errorStale' = FALSE
  /\ showSetupModal' = checkForSetupError(errorMessage, modal)
  /\ isLoading' = FALSE
  /\ tasks' = tasks \ {t}
  /\ availableOllamaModels' = <<>>
  /\ UNCHANGED <<mounted, selectedOllamaModels,
                 checkResults, uploadedImage, ocrTesseract, ocrEasyOcr,
                 llmAnalyses, batchFiles, log, pdfVars, sideVars>>
FetchModelsCatch(t, errorMessage, modal) ==
  /\ error' = ModelFetchError(errorMessage)
  /\ errorStale' = FALSE
  /\ showSetupModal' = checkForSetupError(errorMessage, modal)
  /\ isLoading' = FALSE
  /\ tasks' = tasks \ {t}
  /\ UNCHANGED <<mounted, availableOllamaModels, selectedOllamaModels,
                 checkResults, uploadedImage, ocrTesseract, ocrEasyOcr,
                 llmAnalyses, batchFiles, log, pdfVars, sideVars>>

\* non-2xx response of GET /api/ollama-models
FetchModelsHttpError(t, status, body) ==
  /\ t \in FetchTasks
  /\ LET detailMessage == FetchModelsDetail(status, body)
     IN  FetchModelsCatch(t, detailMessage,
                          checkForSetupError(detailMessage, showSetupModal))

\* fetch() rejected
FetchModelsNetworkError(t) ==
  /\ t \in FetchTasks
  /\ FetchModelsCatch(t, NetworkErrorMessage, showSetupModal)

\* ----------------------------------------------------------- small events
\* ModelSelector checkbox onChange -> handleModelSelectionChange
handleModelSelectionChange(modelName, isSelected) ==
  selectedOllamaModels' =
    IF isSelected THEN Append(selectedOllamaModels, modelName)
    ELSE Filter(selectedOllamaModels, modelName)

ToggleModel(modelName) ==
  /\ mounted
  /\ ~SelectorDisabled
  /\ Includes(availableOllamaModels, modelName)
  /\ handleModelSelectionChange(modelName, ~Includes(selectedOllamaModels, modelName))
  /\ UNCHANGED <<mounted, isLoading, error, showSetupModal, availableOllamaModels,
                 checkResults, uploadedImage, ocrTesseract, ocrEasyOcr,
                 llmAnalyses, tasks, batchFiles, log, errorStale, pdfVars, sideVars>>

\* help button: onClick={() => setShowSetupModal(true)}
OpenSetupModal ==
  /\ mounted
  /\ ~showSetupModal
  /\ showSetupModal' = TRUE
  /\ UNCHANGED <<mounted, isLoading, error, availableOllamaModels,
                 selectedOllamaModels, checkResults, uploadedImage, ocrTesseract,
                 ocrEasyOcr, llmAnalyses, tasks, batchFiles, log, errorStale, pdfVars, sideVars>>

\* SetupInstructionsModal onClose
CloseSetupModal ==
  /\ showSetupModal
  /\ showSetupModal' = FALSE
  /\ UNCHANGED <<mounted, isLoading, error, availableOllamaModels,
                 selectedOllamaModels, checkResults, uploadedImage, ocrTesseract,
                 ocrEasyOcr, llmAnalyses, tasks, batchFiles, log, errorStale, pdfVars, sideVars>>

\* -------------------------------------------------------- upload pipeline
Event(ev, pos, why) == [ev |-> ev, pos |-> pos, why |-> why]

\* setError(null) at the top of processSingleImage: the error afterwards
ErrorAfterStart_keeps(e) == e
ErrorAfterStart(e) == NoError

\* setCheckResults((prev) => [...prev, result])
AppendResult_prepends(prev, result) == <<result>> \o prev
AppendResult(prev, result) == Append(prev, result)

\* `for (const file of files)`: is there a next iteration after files[t.i]
HasNext_stopsOnFailure(t) == t.i < Len(t.files) /\ t.result # NoResult
HasNext(t) == t.i < Len(t.files)

\* the tasks handleImagesUpload starts: one loop that awaits each file
SpawnedTasks_noAwait(files, models) ==
  {BatchTask(<<files[k]>>, models, 1, "reading", NoResult) : k \in 1..Len(files)}
SpawnedTasks(files, models) ==
  {BatchTask(files, models, 1, "reading", NoResult)}

SetupError ==
  ProcessingError("Setup",
    <<"Please select at least one Ollama model to proceed with analysis.">>)

\* handleImagesUpload(files) up to the first await: the guard on the
\* selection, then the loop entry and processSingleImage(files[0]) up to
\* the FileReader promise
handleImagesUpload_noGuard(files) ==
  /\ checkResults' = <<>>
  /\ isLoading' = TRUE
  /\ error' = ErrorAfterStart(error)
  /\ errorStale' = (error' # NoError)
  /\ tasks' = tasks \cup SpawnedTasks(files, selectedOllamaModels)
  /\ batchFiles' = files
  /\ log' = <<Event("start", 1, "")>>
  /\ UNCHANGED <<showSetupModal, availableOllamaModels, selectedOllamaModels,
                 uploadedImage, ocrTesseract, ocrEasyOcr, llmAnalyses>>
handleImagesUpload(files) ==
  IF Len(selectedOllamaModels) = 0
  THEN /\ error' = SetupError
       /\ errorStale' = FALSE
       /\ UNCHANGED <<isLoading, showSetupModal, availableOllamaModels,
                      selectedOllamaModels, checkResults, uploadedImage,
                      ocrTesseract, ocrEasyOcr, llmAnalyses, tasks, batchFiles, log>>
  ELSE /\ checkResults' = <<>>
       /\ isLoading' = TRUE
       /\ error' = ErrorAfterStart(error)
       /\ errorStale' = (error' # NoError)
       /\ tasks' = tasks \cup SpawnedTasks(files, selectedOllamaModels)
       /\ batchFiles' = files
       /\ log' = <<Event("start", 1, "")>>
       /\ UNCHANGED <<showSetupModal, availableOllamaModels, selectedOllamaModels,
                      uploadedImage, ocrTesseract, ocrEasyOcr, llmAnalyses>>

\* ImageUpload handleDrop / handleChange: files.length > 0 && !disabled
DropFiles(files) ==
  /\ mounted
  /\ ~UploadDisabled
  /\ handleImagesUpload(files)
  /\ UNCHANGED <<mounted, pdfVars, sideVars>>

\* reader.onload: setUploadedImage, build the form data, POST /api/ocr-check
FileReaderLoad(t) ==
  /\ t \in BatchTasks /\ t.pc = "reading"
  /\ uploadedImage' = DataUrl(t.files[t.i])
  /\ tasks' = (tasks \ {t}) \cup {[t EXCEPT !.pc = "fetching"]}
  /\ log' = Append(log, Event("request", t.i, ""))
  /\ UNCHANGED <<mounted, isLoading, error, showSetupModal, availableOllamaModels,
                 selectedOllamaModels, checkResults, ocrTesseract, ocrEasyOcr,
                 llmAnalyses, batchFiles, errorStale, pdfVars, sideVars>>

\* reader.onerror: the "Image Upload" error, return null
FileReaderError_sendsRequest(t) ==
  /\ t \in BatchTasks /\ t.pc = "reading"
  /\ error' = ProcessingError("Image Upload", <<"Failed to read file.">>)
  /\ errorStale' = FALSE
  /\ tasks' = (tasks \ {t}) \cup {[t EXCEPT !.pc = "fetching"]}
  /\ log' = log \o <<Event("fail", t.i, "read"), Event("request", t.i, "")>>
  /\ UNCHANGED <<mounted, isLoading, showSetupModal, availableOllamaModels,
                 selectedOllamaModels, checkResults, uploadedImage, ocrTesseract,
                 ocrEasyOcr, llmAnalyses, batchFiles, pdfVars, sideVars>>
FileReaderError(t) ==
  /\ t \in BatchTasks /\ t.pc = "reading"
  /\ error' = ProcessingError("Image Upload", <<"Failed to read file.">>)
  /\ errorStale' = FALSE
  /\ tasks' = (tasks \ {t}) \cup {[t EXCEPT !.pc = "returned", !.result = NoResult]}
  /\ log' = Append(log, Event("fail", t.i, "read"))
  /\ UNCHANGED <<mounted, isLoading, showSetupModal, availableOllamaModels,
                 selectedOllamaModels, checkResults, uploadedImage, ocrTesseract,
                 ocrEasyOcr, llmAnalyses, batchFiles, pdfVars, sideVars>>

\* 2xx response of POST /api/ocr-check: the single-result fields are set
\* and the CheckResult is returned
AnalysisOk(t, data) ==
  /\ t \in BatchTasks /\ t.pc = "fetching"
  /\ data \in OkResponses(t.files[t.i], t.models)
  /\ ocrTesseract' = data.raw_ocr_tesseract
  /\ ocrEasyOcr' = data.raw_ocr_easyocr
  /\ llmAnalyses' = data.llm_analyses
  /\ tasks' = (tasks \ {t}) \cup
              {[t EXCEPT !.pc = "returned",
                         !.result = CheckResult(DataUrl(t.files[t.i]), data)]}
  /\ log' = Append(log, Event("ok", t.i, ""))
  /\ UNCHANGED <<mounted, isLoading, error, showSetupModal, availableOllamaModels,
                 selectedOllamaModels, checkResults, uploadedImage, batchFiles,
                 errorStale, pdfVars, sideVars>>

\* the catch block of processSingleImage
AnalysisCatch(t, errorMessage, modal, why) ==
  /\ error' = CheckProcessingError(errorMessage)
  /\ errorStale' = FALSE
  /\ showSetupModal' = checkForSetupError(errorMessage, modal)
  /\ tasks' = (tasks \ {t}) \cup {[t EXCEPT !.pc = "returned", !.result = NoResult]}
  /\ log' = Append(log, Event("fail", t.i, why))
  /\ UNCHANGED <<mounted, isLoading, availableOllamaModels, selectedOllamaModels,
                 checkResults, uploadedImage, ocrTesseract, ocrEasyOcr,
                 llmAnalyses, batchFiles, pdfVars, sideVars>>

\* non-2xx response of POST /api/ocr-check
AnalysisHttpError(t, status, body) ==
  /\ t \in BatchTasks /\ t.pc = "fetching"
  /\ LET detailMessage == AnalysisDetail(status, body)
     IN  AnalysisCatch(t, detailMessage,
                       checkForSetupError(detailMessage, showSetupModal), "http")

\* fetch() rejected
AnalysisNetworkError(t) ==
  /\ t \in BatchTasks /\ t.pc = "fetching"
  /\ AnalysisCatch(t, NetworkErrorMessage, showSetupModal, "network")

\* handleImagesUpload resumes after `await processSingleImage(file)`:
\* append the result, then either enter processSingleImage for the next
\* file (up to its FileReader promise) or leave the loop
LoopContinue_keepsLoading(t) ==
  /\ t \in BatchTasks /\ t.pc = "returned"
  /\ checkResults' = IF t.result # NoResult
                     THEN AppendResult(checkResults, t.result)
                     ELSE checkResults
  /\ IF HasNext(t)
     THEN /\ error' = ErrorAfterStart(error)
          /\ errorStale' = (error' # NoError)
          /\ tasks' = (tasks \ {t}) \cup
                      {BatchTask(t.files, t.models, t.i + 1, "reading", NoResult)}
          /\ log' = Append(log, Event("start", t.i + 1, ""))
          /\ UNCHANGED <<isLoading, batchFiles>>
     ELSE /\ tasks' = tasks \ {t}
          /\ batchFiles' = <<>>
          /\ log' = <<>>
          /\ UNCHANGED <<isLoading, error, errorStale>>
  /\ UNCHANGED <<mounted, showSetupModal, availableOllamaModels,
                 selectedOllamaModels, uploadedImage, ocrTesseract, ocrEasyOcr,
                 llmAnalyses, pdfVars, sideVars>>
LoopContinue(t) ==
  /\ t \in BatchTasks /\ t.pc = "returned"
  /\ checkResults' = IF t.result # NoResult
                     THEN AppendResult(checkResults, t.result)
                     ELSE checkResults
  /\ IF HasNext(t)
     THEN /\ error' = ErrorAfterStart(error)
          /\ errorStale' = (error' # NoError)
          /\ tasks' = (tasks \ {t}) \cup
                      {BatchTask(t.files, t.models, t.i + 1, "reading", NoResult)}
          /\ log' = Append(log, Event("start", t.i + 1, ""))
          /\ UNCHANGED <<isLoading, batchFiles>>
     ELSE /\ isLoading' = FALSE
          /\ tasks' = tasks \ {t}
          /\ batchFiles' = <<>>
          /\ log' = <<>>
          /\ UNCHANGED <<error, errorStale>>
  /\ UNCHANGED <<mounted, showSetupModal, availableOllamaModels,
                 selectedOllamaModels, uploadedImage, ocrTesseract, ocrEasyOcr,
                 llmAnalyses, pdfVars, sideVars>>

\* -------------------------------------------------------- report renderer
\* jsPDF({unit: "mm", format: "a4"}): doc.internal.pageSize.getHeight() is
\* 841.89pt = 297.00008mm; every height below is a whole number of mm, so
\* comparing against 297 - margin decides as the code does
pageHeight == 297
margin     == 15

MaxImgHeight == 270   \* tallest scaled image (mm); the content area is 267
MaxLines     == 3     \* lines one wrapped text (OCR text, error, value) may take
MaxAnalyses  == 2     \* entries of llmAnalyses
MaxFields    == 2     \* displayed fields of one analysis

\* scaled image heights: a coarse grid and every value around the height of
\* the content area
ImgHeights == {20 * k : k \in 1..12} \cup ((MaxImgHeight - 14)..MaxImgHeight)

\* layout instructions: the calls the assembly code makes, in order
Check(h)       == [op |-> "check", h |-> h, kind |-> ""]
Place(kind, h) == [op |-> "place", h |-> h, kind |-> kind]   \* draw at currentY, currentY += h
Draw(kind, h)  == [op |-> "draw",  h |-> h, kind |-> kind]   \* draw at currentY, cursor stays
Skip(d)        == [op |-> "skip",  h |-> d, kind |-> ""]     \* currentY += d
Throw          == [op |-> "throw", h |-> 0, kind |-> ""]

RECURSIVE Repeat(_, _)
Repeat(instrs, n) == IF n = 0 THEN <<>> ELSE instrs \o Repeat(instrs, n - 1)

\* lines.forEach((line) => { checkAndAddNewPage(h); doc.text(line, ...); currentY += h })
Lines(kind, n, h) == Repeat(<<Check(h), Place(kind, h)>>, n)

\* checkAndAddNewPage(spaceNeeded): does it start a new page
NeedsNewPage_atLimit(y, spaceNeeded) == y + spaceNeeded >= pageHeight - margin
NeedsNewPage(y, spaceNeeded) == y + spaceNeeded > pageHeight - margin

\* title and generation timestamp
TitleSection(v) ==
  IF v = "App" THEN <<Place("title", 15), Draw("generated", 0)>>
  ELSE <<Place("title", 15), Place("generated", 10)>>

\* App.tsx performance summary: formatDuration is declared further down in
\* the same block (line 490), so its first use raises
PerformanceSection(items) ==
  <<Check(25), Place("performanceHeader", 10)>>
  \o (IF items > 0 THEN <<Check(6), Draw("performanceLabel", 0)>> ELSE <<Check(8)>>)
  \o <<Throw>>

\* App.tsx "Models Used" / "Success Rate"
SummarySection == <<Skip(10), Place("modelsUsed", 5), Place("successRate", 20)>>

JourneyHeader(v) ==
  IF v = "App" THEN <<Check(40), Place("journeyHeader", 12)>>
  ELSE <<Check(30), Place("journeyHeader", 12)>>

\* one journey step; detailLines is the length of splitTextToSize(details)
JourneyStep(v, detailLines) ==
  IF v = "App"
  THEN <<Check(25), Place("stepHeader", 7), Place("stepDescription", 5)>>
       \o Lines("detailLine", detailLines, 4) \o <<Skip(5)>>
  ELSE <<Check(10), Place("stepHeader", 6), Place("stepDetails", 8)>>

JourneySteps(v) == IF v = "App" THEN 5 ELSE 3

\* the check image; unreadable: doc.getImageProperties raises
ImageSection(imgHeight, unreadable) ==
  <<Check(30), Place("imageHeader", 12)>>
  \o (IF unreadable THEN <<Throw>>
      ELSE <<Check(imgHeight + 10), Draw("image", imgHeight), Skip(imgHeight + 15)>>)

\* raw OCR text; 0 lines: the engine returned no text.  ReportPage prints
\* Tesseract and PaddleOCR (at most 10 lines each), not EasyOCR
OcrSection(v, tesseractLines, secondLines) ==
  <<Check(20), Place("ocrHeader", 12)>>
  \o (IF tesseractLines = 0 THEN <<>>
      ELSE (IF v = "App" THEN <<Check(15)>> ELSE <<>>)
           \o <<Place("tesseractHeader", 8)>>
           \o Lines("ocrLine", tesseractLines, 4) \o <<Skip(8)>>)
  \o (IF secondLines = 0 THEN <<>>
      ELSE (IF v = "App" THEN <<Check(15), Place("easyOcrHeader", 8)>>
            ELSE <<Place("paddleOcrHeader", 8)>>)
           \o Lines("ocrLine", secondLines, 4) \o <<Skip(8)>>)

AnalysesHeader == <<Check(20), Place("analysesHeader", 12)>>

\* one entry of llmAnalyses.  shape: "error" (errorLines wrapped lines),
\* "analysis" (side called out or not, fields displayed fields, the first
\* of them with valueLines wrapped lines), "none"; last: no separator
AnalysisEntry(v, shape, lines, side, fields, last) ==
  IF v = "App"
  THEN <<Check(20), Place("modelName", 8)>>
       \o (CASE shape = "error" -> Lines("errorLine", lines, 5) \o <<Skip(5)>>
             [] shape = "analysis" ->
                  (IF side THEN <<Place("side", 6)>> ELSE <<>>)
                  \o (IF fields = 0 THEN <<>>
                      ELSE <<Check(6), Place("field", 5)>>
                           \o Lines("valueLine", lines - 1, 5)
                           \o Repeat(<<Check(6), Place("field", 5)>>, fields - 1))
             [] OTHER -> <<Place("noData", 7)>>)
       \o (IF last THEN <<>> ELSE <<Skip(5), Check(2), Draw("separator", 0), Skip(8)>>)
  ELSE <<Check(15), Place("modelName", 8)>>
       \o (CASE shape = "error" -> <<Place("errorLine", 6)>>
             [] shape = "analysis" -> Repeat(<<Check(5), Place("field", 5)>>, fields)
             [] OTHER -> <<>>)
       \o <<Skip(8)>>

PdfError ==
  ProcessingError("PDF Generation",
    <<"An error occurred while creating the PDF report.">>)

At(section, k) == [section |-> section, k |-> k]

Shapes == {"error", "analysis", "none"}

\* generatePdfReport enters its try block: setIsLoading(true) (ReportPage:
\* setIsGeneratingPdf(true) and the first status update), new jsPDF,
\* currentY = margin
BeginReport(v) ==
  /\ pdfPc = At("idle", 0)
  /\ variant' = v
  /\ currentY' = margin
  /\ pageCount' = 1
  /\ todo' = TitleSection(v)
  /\ pdfPc' = IF v = "App" THEN At("performance", 0) ELSE At("journey", 0)
  /\ isLoading' = IF v = "App" THEN TRUE ELSE isLoading
  /\ errorStale' = IF v = "App" THEN error # NoError ELSE errorStale
  /\ isGeneratingPdf' = IF v = "App" THEN isGeneratingPdf ELSE TRUE
  /\ statusType' = IF v = "App" THEN statusType ELSE "info"
  /\ UNCHANGED <<lastCheck, lastPlaced, saved, sideVars>>
  /\ UNCHANGED <<mounted, error, showSetupModal, availableOllamaModels,
                 selectedOllamaModels, checkResults, uploadedImage, ocrTesseract,
                 ocrEasyOcr, llmAnalyses, tasks, batchFiles, log>>

\* the section that follows once the instructions of the last are done
Section(name) == pdfPc.section = name /\ todo = <<>>

\* taken: processingTimes.totalProcessing.duration > 0
PdfPerformance(taken, items) ==
  /\ Section("performance")
  /\ todo' = IF taken THEN PerformanceSection(items) ELSE <<>>
  /\ pdfPc' = At("summary", 0)
  /\ UNCHANGED <<variant, currentY, pageCount, lastCheck, lastPlaced, saved, reportVars, appVars, sideVars>>

PdfSummary ==
  /\ Section("summary")
  /\ todo' = SummarySection
  /\ pdfPc' = At("journey", 0)
  /\ UNCHANGED <<variant, currentY, pageCount, lastCheck, lastPlaced, saved, reportVars, appVars, sideVars>>

PdfJourneyHeader ==
  /\ Section("journey")
  /\ todo' = JourneyHeader(variant)
  /\ pdfPc' = At("journeyStep", JourneySteps(variant))
  /\ UNCHANGED <<variant, currentY, pageCount, lastCheck, lastPlaced, saved, reportVars, appVars, sideVars>>

\* journeySteps.forEach; App.tsx adds 10 after the loop
PdfJourneyStep(detailLines) ==
  /\ Section("journeyStep")
  /\ todo' = JourneyStep(variant, detailLines)
             \o (IF pdfPc.k = 1 /\ variant = "App" THEN <<Skip(10)>> ELSE <<>>)
  /\ pdfPc' = IF pdfPc.k = 1 THEN At("image", 0) ELSE At("journeyStep", pdfPc.k - 1)
  /\ UNCHANGED <<variant, currentY, pageCount, lastCheck, lastPlaced, saved, reportVars, appVars, sideVars>>

\* present: uploadedImage is set
PdfImage(present, imgHeight, unreadable) ==
  /\ Section("image")
  /\ todo' = IF present THEN ImageSection(imgHeight, unreadable) ELSE <<>>
  /\ pdfPc' = At("ocr", 0)
  /\ UNCHANGED <<variant, currentY, pageCount, lastCheck, lastPlaced, saved, reportVars, appVars, sideVars>>

\* present: some engine returned text (for ReportPage that can be EasyOCR
\* alone, which it does not print)
PdfOcr(present, tesseractLines, secondLines) ==
  /\ Section("ocr")
  /\ tesseractLines + secondLines > 0 => present
  /\ variant = "App" => (present <=> tesseractLines + secondLines > 0)
  /\ todo' = IF present THEN OcrSection(variant, tesseractLines, secondLines) ELSE <<>>
  /\ pdfPc' = At("analyses", 0)
  /\ UNCHANGED <<variant, currentY, pageCount, lastCheck, lastPlaced, saved, reportVars, appVars, sideVars>>

\* entries: llmAnalyses.length (0 also for null)
PdfAnalysesHeader(entries) ==
  /\ Section("analyses")
  /\ todo' = IF entries > 0 THEN AnalysesHeader ELSE <<>>
  /\ pdfPc' = IF entries > 0 THEN At("analysis", entries) ELSE At("finish", 0)
  /\ UNCHANGED <<variant, currentY, pageCount, lastCheck, lastPlaced, saved, reportVars, appVars, sideVars>>

\* llmAnalyses.forEach
PdfAnalysisEntry(shape, lines, side, fields) ==
  /\ Section("analysis")
  /\ todo' = AnalysisEntry(variant, shape, lines, side, fields, pdfPc.k = 1)
  /\ pdfPc' = IF pdfPc.k = 1 THEN At("finish", 0) ELSE At("analysis", pdfPc.k - 1)
  /\ UNCHANGED <<variant, currentY, pageCount, lastCheck, lastPlaced, saved, reportVars, appVars, sideVars>>

\* the catch block (threw) and the finally block of generatePdfReport
Finally(threw) ==
  /\ error' = IF threw /\ variant = "App" THEN PdfError ELSE error
  /\ statusType' = IF variant = "App" THEN statusType
                   ELSE IF threw THEN "error" ELSE "success"
  /\ isLoading' = IF variant = "App" THEN FALSE ELSE isLoading
  /\ isGeneratingPdf' = IF variant = "App" THEN isGeneratingPdf ELSE FALSE
  /\ UNCHANGED <<mounted, showSetupModal, availableOllamaModels,
                 selectedOllamaModels, checkResults, uploadedImage, ocrTesseract,
                 ocrEasyOcr, llmAnalyses, tasks, batchFiles, log, errorStale>>

\* the footers (drawn at pageHeight - 10, not at the cursor) and doc.save;
\* ReportPage with preview = true keeps the blob and saves nothing
PdfFinish(preview) ==
  /\ Section("finish")
  /\ variant = "App" => ~preview
  /\ saved' = ~preview
  /\ pdfPc' = At("done", 0)
  /\ Finally(FALSE)
  /\ UNCHANGED <<variant, todo, currentY, pageCount, lastCheck, lastPlaced, sideVars>>

\* checkAndAddNewPage(spaceNeeded)
ExecCheck ==
  /\ todo # <<>> /\ Head(todo).op = "check"
  /\ LET spaceNeeded == Head(todo).h
         paged == NeedsNewPage(currentY, spaceNeeded)
     IN  /\ pageCount' = IF paged THEN pageCount + 1 ELSE pageCount
         /\ currentY' = IF paged THEN margin ELSE currentY
         /\ lastCheck' = [y |-> currentY, h |-> spaceNeeded, paged |-> paged]
  /\ todo' = Tail(todo)
  /\ UNCHANGED <<variant, pdfPc, lastPlaced, saved, reportVars, appVars, sideVars>>

\* doc.text / doc.addImage / doc.line at the cursor
ExecPlace ==
  /\ todo # <<>> /\ Head(todo).op \in {"place", "draw"}
  /\ lastPlaced' = [y |-> currentY, h |-> Head(todo).h, kind |-> Head(todo).kind]
  /\ currentY' = IF Head(todo).op = "place" THEN currentY + Head(todo).h ELSE currentY
  /\ todo' = Tail(todo)
  /\ UNCHANGED <<variant, pdfPc, pageCount, lastCheck, saved, reportVars, appVars, sideVars>>

\* currentY += d
ExecSkip ==
  /\ todo # <<>> /\ Head(todo).op = "skip"
  /\ currentY' = currentY + Head(todo).h
  /\ todo' = Tail(todo)
  /\ UNCHANGED <<variant, pdfPc, pageCount, lastCheck, lastPlaced, saved, reportVars, appVars, sideVars>>

\* an exception inside try: the catch and finally blocks, nothing is saved
ExecThrow ==
  /\ todo # <<>> /\ Head(todo).op = "throw"
  /\ todo' = <<>>
  /\ pdfPc' = At("failed", 0)
  /\ Finally(TRUE)
  /\ UNCHANGED <<variant, currentY, pageCount, lastCheck, lastPlaced, saved, sideVars>>

\* ------------------------------------------- handlers called directly
\* handleImagesUpload called as a function, by a caller that does not go
\* through the upload control's check of the selection
InvokeHandleImagesUpload(files) ==
  /\ mounted
  /\ ~isLoading
  /\ handleImagesUpload(files)
  /\ UNCHANGED <<mounted, pdfVars, sideVars>>

\* App.tsx generatePdfReport as a whole (it has no await): the guard on the
\* data, setIsLoading(true), the assembly inside try (threw: a jsPDF call
\* or the assembly code raised), catch, finally.  App.tsx renders no
\* control for it.
generatePdfReport(threw) ==
  /\ ~(uploadedImage = Null /\ ocrTesseract = Null /\ ocrEasyOcr = Null
       /\ llmAnalyses = Null)
  /\ error' = IF threw THEN PdfError ELSE error
  /\ errorStale' = (~threw /\ error # NoError)
  /\ isLoading' = FALSE
  /\ UNCHANGED <<showSetupModal, availableOllamaModels, selectedOllamaModels,
                 checkResults, uploadedImage, ocrTesseract, ocrEasyOcr,
                 llmAnalyses, tasks, batchFiles, log>>

InvokeGeneratePdfReport(threw) ==
  /\ mounted
  /\ ~isLoading
  /\ generatePdfReport(threw)
  /\ UNCHANGED <<mounted, pdfVars, sideVars>>

\* --------------------------------------------------------- key formatting
\* .replace(/([A-Z])/g, " $1")
RECURSIVE SpaceBeforeCapitals(_)
SpaceBeforeCapitals(s) ==
  IF s = "" THEN ""
  ELSE (IF IsCapital(Char(s, 1)) THEN " " ELSE "") \o Char(s, 1)
       \o SpaceBeforeCapitals(SubSeq(s, 2, Len(s)))

\* .replace(/_/g, " ")
RECURSIVE UnderscoresToSpaces(_)
UnderscoresToSpaces(s) ==
  IF s = "" THEN ""
  ELSE (IF Char(s, 1) = "_" THEN " " ELSE Char(s, 1))
       \o UnderscoresToSpaces(SubSeq(s, 2, Len(s)))

\* .replace(/^\w/, (c) => c.toUpperCase())
UpperFirst(s) ==
  IF s # "" /\ IsWordChar(Char(s, 1))
  THEN UpperChar(Char(s, 1)) \o SubSeq(s, 2, Len(s))
  ELSE s

\* .replace(/\s\w/g, (c) => c.toUpperCase()): a match is a whitespace and
\* the word character after it; the scan resumes after the match
RECURSIVE UpperAfterSpace(_)
UpperAfterSpace(s) ==
  IF Len(s) < 2 THEN s
  ELSE IF IsSpace(Char(s, 1)) /\ IsWordChar(Char(s, 2))
       THEN Char(s, 1) \o UpperChar(Char(s, 2)) \o UpperAfterSpace(SubSeq(s, 3, Len(s)))
       ELSE Char(s, 1) \o UpperAfterSpace(SubSeq(s, 2, Len(s)))

IsIban_caseSensitive(k) == k = "iban"
IsIban(k) == toLowerCase(k) = "iban"

formatKeyForPdf(k) ==
  IF IsIban(k) THEN "IBAN"
  ELSE UpperAfterSpace(UpperFirst(trim(UnderscoresToSpaces(SpaceBeforeCapitals(k)))))

\* formatKeyForPdf applied to a key, then to its own result
FormatKey ==
  /\ Len(labels) < 2
  /\ labels' = Append(labels, formatKeyForPdf(IF labels = <<>> THEN key ELSE labels[1]))
  /\ UNCHANGED <<key, appVars, pdfVars, errVars, fieldVars, urlVars,
                 outlineVars, rateVars, timeVars>>

\* --------------------------------------------------------- analysis fields
\* doc.splitTextToSize(text, width) for a text without spaces: it is cut
\* every LineChars characters
RECURSIVE splitTextToSize(_, _)
splitTextToSize(text, n) ==
  IF Len(text) <= n THEN <<text>>
  ELSE <<SubSeq(text, 1, n)>> \o splitTextToSize(SubSeq(text, n + 1, Len(text)), n)

\* String(value)
String(value) ==
  CASE value.type = "string" -> value.s
    [] value.type = "number" -> ToString(value.n)
    [] value.type = "null" -> "null"
    [] OTHER -> "undefined"

\* value && ...
TruthyValue(value) ==
  \/ value.type = "string" /\ value.s # ""
  \/ value.type = "number" /\ value.n # 0

\* analysis.side (undefined when the key is absent)
SideOf(entries) ==
  IF \E i \in 1..Len(entries) : entries[i].key = "side"
  THEN (CHOOSE e \in {entries[i] : i \in 1..Len(entries)} : e.key = "side").value
  ELSE UndefinedValue

\* does the Object.entries loop display this entry
Displayed_truthy(v, k, value) ==
  IF v = "App" THEN k # "side" /\ TruthyValue(value)
  ELSE TruthyValue(value)
Displayed(v, k, value) ==
  IF v = "App"
  THEN ~(k = "side" \/ value.type = "null" \/ value.type = "undefined" \/ value = Str(""))
  ELSE value.type # "null" /\ value.type # "undefined" /\ String(value) # ""

\* one doc.text call for the label and one per line after it
TextEntry(label, lines) == [label |-> label, lines |-> lines]

\* the text of one displayed entry
FieldEntry(v, k, value) ==
  IF v = "App"
  THEN TextEntry(formatKeyForPdf(k) \o ": ", splitTextToSize(String(value), LineChars))
  ELSE TextEntry(formatKeyForPdf(k) \o ": ", <<String(value)>>)

\* the model line, then the error, the side call-out or the missing-data
\* note of one entry of llmAnalyses
RenderModel ==
  /\ fieldPos = 0
  /\ LET v == renderer
         item == resultItem
         name == TextEntry((IF Truthy(item.error) THEN "x " ELSE "v ") \o item.model_name, <<>>)
         side == SideOf(item.entries)
     IN  IF Truthy(item.error)
         THEN /\ modelText' =
                   <<name, IF v = "App"
                           THEN TextEntry("", splitTextToSize("Error: " \o Text(item.error), LineChars))
                           ELSE TextEntry("Error: " \o Text(item.error), <<>>)>>
              /\ fieldPos' = Len(item.entries) + 1
         ELSE IF item.hasAnalysis
         THEN /\ modelText' =
                   IF v = "App" /\ TruthyValue(side) /\ side # Str("Unknown")
                   THEN <<name, TextEntry("Detected Side: " \o String(side), <<>>)>>
                   ELSE <<name>>
              /\ fieldPos' = 1
         ELSE /\ modelText' =
                   IF v = "App"
                   THEN <<name, TextEntry("No analysis data provided by this model.", <<>>)>>
                   ELSE <<name>>
              /\ fieldPos' = 1
  /\ UNCHANGED <<renderer, resultItem, appVars, pdfVars, keyVars, errVars, urlVars,
                 outlineVars, rateVars, timeVars>>

\* one iteration of Object.entries(analysis).forEach
RenderField ==
  /\ fieldPos \in 1..Len(resultItem.entries)
  /\ LET e == resultItem.entries[fieldPos]
     IN  modelText' = IF Displayed(renderer, e.key, e.value)
                      THEN Append(modelText, FieldEntry(renderer, e.key, e.value))
                      ELSE modelText
  /\ fieldPos' = fieldPos + 1
  /\ UNCHANGED <<renderer, resultItem, appVars, pdfVars, keyVars, errVars, urlVars,
                 outlineVars, rateVars, timeVars>>

\* ----------------------------------------------------------- Ollama URL
\* the useState initializer: localStorage.getItem("ollamaUrl") || default
InitialOllamaUrl_nullish(item) == IF item.present THEN item.value ELSE DefaultOllamaUrl
InitialOllamaUrl(item) ==
  IF item.present /\ item.value # "" THEN item.value ELSE DefaultOllamaUrl

\* onChange of the URL field: setOllamaUrl(e.target.value); the render
\* that follows schedules the effect.  React runs a scheduled effect
\* before it handles the next event.
EditOllamaUrl(value) ==
  /\ ~persistPending
  /\ value # ollamaUrl
  /\ ollamaUrl' = value
  /\ persistPending' = TRUE
  /\ lastEdit' = Item(value)
  /\ sessionStart' = [sessionStart EXCEPT !.edited = TRUE]
  /\ UNCHANGED <<storage, appVars, pdfVars, keyVars, errVars, fieldVars, outlineVars,
                 rateVars, timeVars>>

\* useEffect(() => localStorage.setItem("ollamaUrl", ollamaUrl), [ollamaUrl])
PersistOllamaUrl ==
  /\ persistPending
  /\ storage' = Item(ollamaUrl)
  /\ persistPending' = FALSE
  /\ UNCHANGED <<ollamaUrl, lastEdit, sessionStart, appVars, pdfVars, keyVars, errVars,
                 fieldVars, outlineVars, rateVars, timeVars>>

\* the page is loaded again: the component mounts with a fresh state, its
\* effects run after the first render
NewSession ==
  /\ ~persistPending
  /\ ollamaUrl' = InitialOllamaUrl(storage)
  /\ persistPending' = TRUE
  /\ sessionStart' = [edited |-> FALSE, item |-> storage]
  /\ UNCHANGED <<storage, lastEdit, appVars, pdfVars, keyVars, errVars, fieldVars,
                 outlineVars, rateVars, timeVars>>

\* ---------------------------------------------------------- report outline
\* data handed to a renderer: which renderer, whether the timing of the
\* whole run is known, whether there is an image, which OCR engines
\* returned text (ocrPaddleOcr is a prop of ReportPage only), and the model
\* names of llmAnalyses in order
ReportModels == {"llama3", "mistral"}
AnalysisLists == UNION {[1..n -> ReportModels] : n \in 0..MaxAnalyses}
ReportInputs ==
  {r \in [variant : {"App", "ReportPage"}, taken : BOOLEAN, image : BOOLEAN,
          tesseract : BOOLEAN, easyocr : BOOLEAN, paddle : BOOLEAN,
          analyses : AnalysisLists] :
     /\ r.variant = "App" => ~r.paddle
     /\ r.variant = "ReportPage" => ~r.taken}

\* the headings of the report in the order generatePdfReport draws them
Heading(section, sub) == [section |-> section, sub |-> sub]

\* the title and the "Generated:" line
OutlineTitle ==
  /\ outlinePc = At("title", 0)
  /\ outline' = <<Heading("title", "")>>
  /\ outlinePc' = IF reportInput.variant = "App" THEN At("performance", 0)
                  ELSE At("journey", 0)
  /\ UNCHANGED <<reportInput, appVars, pdfVars, keyVars, errVars, fieldVars, urlVars,
                 rateVars, timeVars>>

\* App.tsx performance summary; its first use of formatDuration raises
OutlinePerformance ==
  /\ outlinePc = At("performance", 0)
  /\ outline' = IF reportInput.taken THEN Append(outline, Heading("performance", ""))
                ELSE outline
  /\ outlinePc' = IF reportInput.taken THEN At("failed", 0) ELSE At("summary", 0)
  /\ UNCHANGED <<reportInput, appVars, pdfVars, keyVars, errVars, fieldVars, urlVars,
                 rateVars, timeVars>>

\* App.tsx "Models Used" / "Success Rate"
OutlineSummary ==
  /\ outlinePc = At("summary", 0)
  /\ outline' = Append(outline, Heading("summary", ""))
  /\ outlinePc' = At("journey", 0)
  /\ UNCHANGED <<reportInput, appVars, pdfVars, keyVars, errVars, fieldVars, urlVars,
                 rateVars, timeVars>>

\* the processing journey and its steps
OutlineJourney ==
  /\ outlinePc = At("journey", 0)
  /\ outline' = Append(outline, Heading("journey", ""))
  /\ outlinePc' = At("image", 0)
  /\ UNCHANGED <<reportInput, appVars, pdfVars, keyVars, errVars, fieldVars, urlVars,
                 rateVars, timeVars>>

\* if (uploadedImage)
OutlineImage ==
  /\ outlinePc = At("image", 0)
  /\ outline' = IF reportInput.image THEN Append(outline, Heading("image", ""))
                ELSE outline
  /\ outlinePc' = At("ocr", 0)
  /\ UNCHANGED <<reportInput, appVars, pdfVars, keyVars, errVars, fieldVars, urlVars,
                 rateVars, timeVars>>

\* the OCR blocks: App.tsx has one for Tesseract and one for EasyOCR,
\* ReportPage one for Tesseract and one for PaddleOCR
OcrHeadings(r) ==
  LET block(present, engine) == IF present THEN <<Heading("ocr", engine)>> ELSE <<>>
  IN  IF r.variant = "App"
      THEN IF r.tesseract \/ r.easyocr
           THEN <<Heading("ocr", "")>> \o block(r.tesseract, "Tesseract")
                \o block(r.easyocr, "EasyOCR")
           ELSE <<>>
      ELSE IF r.tesseract \/ r.easyocr \/ r.paddle
           THEN <<Heading("ocr", "")>> \o block(r.tesseract, "Tesseract")
                \o block(r.paddle, "PaddleOCR")
           ELSE <<>>

OutlineOcr ==
  /\ outlinePc = At("ocr", 0)
  /\ outline' = outline \o OcrHeadings(reportInput)
  /\ outlinePc' = At("analyses", 0)
  /\ UNCHANGED <<reportInput, appVars, pdfVars, keyVars, errVars, fieldVars, urlVars,
                 rateVars, timeVars>>

\* if (llmAnalyses && llmAnalyses.length > 0): the section heading
OutlineAnalyses ==
  /\ outlinePc = At("analyses", 0)
  /\ outline' = IF reportInput.analyses # <<>> THEN Append(outline, Heading("analysis", ""))
                ELSE outline
  /\ outlinePc' = IF reportInput.analyses # <<>> THEN At("analysis", 1) ELSE At("finish", 0)
  /\ UNCHANGED <<reportInput, appVars, pdfVars, keyVars, errVars, fieldVars, urlVars,
                 rateVars, timeVars>>

\* llmAnalyses.forEach: the model line of one entry
OutlineAnalysis ==
  /\ outlinePc.section = "analysis"
  /\ outline' = Append(outline, Heading("analysis", reportInput.analyses[outlinePc.k]))
  /\ outlinePc' = IF outlinePc.k = Len(reportInput.analyses) THEN At("finish", 0)
                  ELSE At("analysis", outlinePc.k + 1)
  /\ UNCHANGED <<reportInput, appVars, pdfVars, keyVars, errVars, fieldVars, urlVars,
                 rateVars, timeVars>>

\* the footers and doc.save
OutlineFinish ==
  /\ outlinePc = At("finish", 0)
  /\ outlinePc' = At("done", 0)
  /\ UNCHANGED <<reportInput, outline, appVars, pdfVars, keyVars, errVars, fieldVars,
                 urlVars, rateVars, timeVars>>

\* ------------------------------------------------------------ success rate
\* the error field of an LLMAnalysis as a renderer may receive it
\* (error?: string | null): null, absent, the empty string or a text
ErrorValues == {NullValue, UndefinedValue, Str(""), Str("Model timeout")}
AnalysesGiven ==
  UNION {[1..n -> [model_name : ReportModels, error : ErrorValues]] : n \in 0..MaxAnalyses}

\* llmAnalyses?.filter((a) => a.error === null) || []
SuccessfulAnalyses(analyses) == SelectSeq(analyses, LAMBDA a : a.error = NullValue)

\* resultItem.error ? "x" : "v"
StatusIcon(item) == IF TruthyValue(item.error) THEN "failed" ELSE "success"

\* the "Success Rate" line of the summary
CountSuccessful ==
  /\ ratePc = 0
  /\ successfulAnalyses' = SuccessfulAnalyses(reportAnalyses)
  /\ ratePc' = IF reportAnalyses = <<>> THEN -1 ELSE 1
  /\ UNCHANGED <<reportAnalyses, statusIcons, appVars, pdfVars, keyVars, errVars,
                 fieldVars, urlVars, outlineVars, timeVars>>

\* llmAnalyses.forEach: the status icon of one entry
DrawStatus ==
  /\ ratePc >= 1
  /\ statusIcons' = Append(statusIcons, StatusIcon(reportAnalyses[ratePc]))
  /\ ratePc' = IF ratePc = Len(reportAnalyses) THEN -1 ELSE ratePc + 1
  /\ UNCHANGED <<reportAnalyses, successfulAnalyses, appVars, pdfVars, keyVars, errVars,
                 fieldVars, urlVars, outlineVars, timeVars>>

\* ------------------------------------------------------------ phase timing
\* Date.now() moves on by a whole number of milliseconds between two reads
Ticks == {0, 1}
\* data.processing_time in seconds; 0 stands for an absent or zero value
ProcessingSeconds == {0, 2}

\* useState({}) and setProcessingTimes({})
EmptyTimes == [phase \in {} |-> 0]
Put(prev, phase, value) ==
  [p \in DOMAIN prev \cup {phase} |-> IF p = phase THEN value ELSE prev[p]]

\* recordTiming(phase, startTime, endTime) applied to the record; an
\* argument left out is 0, which the guards treat like undefined
recordTiming(prev, phase, startTime, endTime) ==
  IF startTime # 0 /\ endTime # 0
  THEN Put(prev, phase, [start |-> startTime, end |-> endTime,
                         duration |-> endTime - startTime])
  ELSE IF startTime # 0
       THEN Put(prev, phase, [start |-> startTime, end |-> 0, duration |-> 0])
       ELSE prev

\* setProcessingTimes({}) queued after the updates made so far
AfterReset_keeps(prev) == prev
AfterReset(prev) == EmptyTimes

\* who recorded a phase, kept alongside every update of the record
Tag(prev, phase, startTime, who) == IF startTime # 0 THEN Put(prev, phase, who) ELSE prev

Timed(at, i, n, startTime, totalStartTime, imageUploadStart, processingStart) ==
  [at |-> at, i |-> i, n |-> n, startTime |-> startTime,
   totalStartTime |-> totalStartTime, imageUploadStart |-> imageUploadStart,
   processingStart |-> processingStart]

\* fetchOllamaModels up to its await
TimeFetchStart ==
  /\ timed.at = "mount"
  /\ \E d \in Ticks :
       LET startTime == now + d
       IN  /\ now' = startTime
           /\ processingTimes' = recordTiming(processingTimes, "modelFetch", startTime, 0)
           /\ recordedFor' = Tag(recordedFor, "modelFetch", startTime, 0)
           /\ timed' = [timed EXCEPT !.at = "models", !.startTime = startTime]
  /\ UNCHANGED <<appVars, pdfVars, keyVars, errVars, fieldVars, urlVars, outlineVars,
                 rateVars>>

\* fetchOllamaModels after its await: the success path and the catch
\* block both record the end of modelFetch
TimeFetchSettles ==
  /\ timed.at = "models"
  /\ \E d \in Ticks :
       LET endTime == now + d
       IN  /\ now' = endTime
           /\ processingTimes' =
                recordTiming(processingTimes, "modelFetch", timed.startTime, endTime)
           /\ recordedFor' = Tag(recordedFor, "modelFetch", timed.startTime, 0)
           /\ timed' = [timed EXCEPT !.at = "ready"]
  /\ UNCHANGED <<appVars, pdfVars, keyVars, errVars, fieldVars, urlVars, outlineVars,
                 rateVars>>

\* processSingleImage up to its first await, for file i of n
SubmitImage(i, n) ==
  /\ \E d1 \in Ticks, d2 \in Ticks :
       LET totalStartTime == now + d1
           imageUploadStart == totalStartTime + d2
           started == recordTiming(processingTimes, "totalProcessing", totalStartTime, 0)
           startedFor == Tag(recordedFor, "totalProcessing", totalStartTime, i)
       IN  /\ now' = imageUploadStart
           /\ processingTimes' =
                recordTiming(AfterReset(started), "imageUpload", imageUploadStart, 0)
           /\ recordedFor' = Tag(AfterReset(startedFor), "imageUpload", imageUploadStart, i)
           /\ timed' = Timed("reading", i, n, timed.startTime, totalStartTime,
                             imageUploadStart, 0)
  /\ UNCHANGED <<appVars, pdfVars, keyVars, errVars, fieldVars, urlVars, outlineVars,
                 rateVars>>

\* handleImagesUpload with n files: the first call of processSingleImage
TimeDropFiles(n) ==
  /\ timed.at = "ready"
  /\ SubmitImage(1, n)

\* the loop of handleImagesUpload: the next call of processSingleImage
TimeNextFile ==
  /\ timed.at = "returned" /\ timed.i < timed.n
  /\ SubmitImage(timed.i + 1, timed.n)

\* the loop of handleImagesUpload is left
TimeBatchEnds ==
  /\ timed.at = "returned" /\ timed.i = timed.n
  /\ timed' = [timed EXCEPT !.at = "done"]
  /\ UNCHANGED <<processingTimes, recordedFor, now, appVars, pdfVars, keyVars, errVars,
                 fieldVars, urlVars, outlineVars, rateVars>>

\* the file is read: imageUpload ends, imageProcessing starts, fetch
TimeReadOk ==
  /\ timed.at = "reading"
  /\ \E d1 \in Ticks, d2 \in Ticks :
       LET imageUploadEnd == now + d1
           processingStart == imageUploadEnd + d2
           uploaded == recordTiming(processingTimes, "imageUpload",
                                    timed.imageUploadStart, imageUploadEnd)
       IN  /\ now' = processingStart
           /\ processingTimes' =
                recordTiming(uploaded, "imageProcessing", processingStart, 0)
           /\ recordedFor' =
                Tag(Tag(recordedFor, "imageUpload", timed.imageUploadStart, timed.i),
                    "imageProcessing", processingStart, timed.i)
           /\ timed' = [timed EXCEPT !.at = "fetching", !.processingStart = processingStart]
  /\ UNCHANGED <<appVars, pdfVars, keyVars, errVars, fieldVars, urlVars, outlineVars,
                 rateVars>>

\* the file cannot be read: return null, nothing recorded
TimeReadFails ==
  /\ timed.at = "reading"
  /\ timed' = [timed EXCEPT !.at = "returned"]
  /\ UNCHANGED <<processingTimes, recordedFor, now, appVars, pdfVars, keyVars, errVars,
                 fieldVars, urlVars, outlineVars, rateVars>>

\* 2xx response: imageProcessing ends, llmProcessing is recorded when the
\* response carries a processing_time, totalProcessing ends
TimeResponseOk(processing_time) ==
  /\ timed.at = "fetching"
  /\ \E d1 \in Ticks, d2 \in Ticks :
       LET processingEnd == now + d1
           totalEndTime == processingEnd + d2
           processed == recordTiming(processingTimes, "imageProcessing",
                                     timed.processingStart, processingEnd)
           analysed == IF processing_time # 0
                       THEN recordTiming(processed, "llmProcessing", timed.processingStart,
                                         timed.processingStart + processing_time * 1000)
                       ELSE processed
           for1 == Tag(recordedFor, "imageProcessing", timed.processingStart, timed.i)
           for2 == IF processing_time # 0
                   THEN Tag(for1, "llmProcessing", timed.processingStart, timed.i)
                   ELSE for1
       IN  /\ now' = totalEndTime
           /\ processingTimes' =
                recordTiming(analysed, "totalProcessing", timed.totalStartTime, totalEndTime)
           /\ recordedFor' = Tag(for2, "totalProcessing", timed.totalStartTime, timed.i)
           /\ timed' = [timed EXCEPT !.at = "returned"]
  /\ UNCHANGED <<appVars, pdfVars, keyVars, errVars, fieldVars, urlVars, outlineVars,
                 rateVars>>

\* the catch block of processSingleImage: totalProcessing ends
TimeResponseFails ==
  /\ timed.at = "fetching"
  /\ \E d \in Ticks :
       LET end == now + d
       IN  /\ now' = end
           /\ processingTimes' =
                recordTiming(processingTimes, "totalProcessing", timed.totalStartTime, end)
           /\ recordedFor' = Tag(recordedFor, "totalProcessing", timed.totalStartTime, timed.i)
           /\ timed' = [timed EXCEPT !.at = "returned"]
  /\ UNCHANGED <<appVars, pdfVars, keyVars, errVars, fieldVars, urlVars, outlineVars,
                 rateVars>>

\* ----------------------------------------------------------- failure paths
\* the failure path of fetchOllamaModels from the response to the catch
\* block: detailMessage, checkForSetupError, throw, setError,
\* checkForSetupError again
FetchModelsFails ==
  /\ response.endpoint = "models" /\ errMessage = Null
  /\ LET m == IF response.rejected THEN response.message
              ELSE FetchModelsDetail(response.status, response.body)
         modal == IF response.rejected THEN showSetupModal
                  ELSE checkForSetupError(m, showSetupModal)
     IN  /\ errMessage' = m
         /\ error' = ModelFetchError(m)
         /\ showSetupModal' = checkForSetupError(m, modal)
  /\ UNCHANGED <<mounted, isLoading, availableOllamaModels, selectedOllamaModels,
                 checkResults, uploadedImage, ocrTesseract, ocrEasyOcr, llmAnalyses,
                 tasks, batchFiles, log, errorStale, response, keyVars, fieldVars,
                 urlVars, outlineVars, pdfVars, rateVars, timeVars>>

\* the same for processSingleImage
AnalysisFails ==
  /\ response.endpoint = "analysis" /\ errMessage = Null
  /\ LET m == IF response.rejected THEN response.message
              ELSE AnalysisDetail(response.status, response.body)
         modal == IF response.rejected THEN showSetupModal
                  ELSE checkForSetupError(m, showSetupModal)
     IN  /\ errMessage' = m
         /\ error' = CheckProcessingError(m)
         /\ showSetupModal' = checkForSetupError(m, modal)
  /\ UNCHANGED <<mounted, isLoading, availableOllamaModels, selectedOllamaModels,
                 checkResults, uploadedImage, ocrTesseract, ocrEasyOcr, llmAnalyses,
                 tasks, batchFiles, log, errorStale, response, keyVars, fieldVars,
                 urlVars, outlineVars, pdfVars, rateVars, timeVars>>

\* ---------------------------------------------------------- specification
NoCheck == [y |-> 0, h |-> 0, paged |-> FALSE]
NoBlock == [y |-> 0, h |-> 0, kind |-> "none"]

InitApp ==
  /\ mounted = FALSE
  /\ isLoading = FALSE
  /\ error = NoError
  /\ showSetupModal = FALSE
  /\ availableOllamaModels = <<>>
  /\ selectedOllamaModels = <<>>
  /\ checkResults = <<>>
  /\ uploadedImage = Null
  /\ ocrTesseract = Null
  /\ ocrEasyOcr = Null
  /\ llmAnalyses = Null
  /\ tasks = {}
  /\ batchFiles = <<>>
  /\ log = <<>>
  /\ errorStale = FALSE

InitPdfIdle ==
  /\ variant = "none"
  /\ pdfPc = At("idle", 0)
  /\ todo = <<>>
  /\ currentY = 0
  /\ pageCount = 0
  /\ lastCheck = NoCheck
  /\ lastPlaced = NoBlock
  /\ saved = FALSE
  /\ isGeneratingPdf = FALSE
  /\ statusType = "none"

InitKeyIdle ==
  /\ key = ""
  /\ labels = <<>>

NoResponse == [endpoint |-> "none", rejected |-> FALSE, status |-> 0,
               body |-> [json |-> FALSE, detail |-> Null, message |-> Null],
               message |-> Null]

InitErrIdle ==
  /\ response = NoResponse
  /\ errMessage = Null

NoItem == [model_name |-> "", error |-> Null, hasAnalysis |-> FALSE, entries |-> <<>>]

InitFieldIdle ==
  /\ renderer = "none"
  /\ resultItem = NoItem
  /\ fieldPos = 1
  /\ modelText = <<>>

\* a first session on a browser that had stored nothing, its effect done
InitUrlIdle ==
  /\ ollamaUrl = DefaultOllamaUrl
  /\ storage = Item(DefaultOllamaUrl)
  /\ persistPending = FALSE
  /\ lastEdit = NoStoredItem
  /\ sessionStart = [edited |-> FALSE, item |-> NoStoredItem]

NoReport == [variant |-> "none", taken |-> FALSE, image |-> FALSE, tesseract |-> FALSE,
             easyocr |-> FALSE, paddle |-> FALSE, analyses |-> <<>>]

InitOutlineIdle ==
  /\ reportInput = NoReport
  /\ outlinePc = At("idle", 0)
  /\ outline = <<>>

InitRateIdle ==
  /\ reportAnalyses = <<>>
  /\ ratePc = -1
  /\ successfulAnalyses = <<>>
  /\ statusIcons = <<>>

InitTimeIdle ==
  /\ processingTimes = EmptyTimes
  /\ recordedFor = EmptyTimes
  /\ now = 1
  /\ timed = Timed("idle", 0, 0, 0, 0, 0, 0)

InitSideIdle ==
  InitKeyIdle /\ InitErrIdle /\ InitFieldIdle /\ InitUrlIdle /\ InitOutlineIdle
  /\ InitRateIdle /\ InitTimeIdle

Init == InitApp /\ InitPdfIdle /\ InitSideIdle

Next ==
  \/ MountEffect
  \/ ClickCheckConnection
  \/ \E t \in tasks, models \in ModelLists : FetchModelsOk(t, models)
  \/ \E t \in tasks, status \in Statuses, body \in ErrorBodies :
       FetchModelsHttpError(t, status, body)
  \/ \E t \in tasks : FetchModelsNetworkError(t)
  \/ \E m \in ModelNames : ToggleModel(m)
  \/ OpenSetupModal
  \/ CloseSetupModal
  \/ \E files \in Batches : DropFiles(files)
  \/ \E t \in tasks : FileReaderLoad(t)
  \/ \E t \in tasks : FileReaderError(t)
  \/ \E t \in tasks, f \in FileIds :
       \E data \in OkResponses(f, t.models) : AnalysisOk(t, data)
  \/ \E t \in tasks, status \in Statuses, body \in ErrorBodies :
       AnalysisHttpError(t, status, body)
  \/ \E t \in tasks : AnalysisNetworkError(t)
  \/ \E t \in tasks : LoopContinue(t)

Spec == Init /\ [][Next]_vars

\* the pipeline when every FileReader promise and every request of a
\* batch settles, and the loop resumes once the awaited value is there
FileReadSettles == \E t \in tasks : FileReaderLoad(t) \/ FileReaderError(t)
AnalysisSettles ==
  \/ \E t \in tasks, f \in FileIds : \E data \in OkResponses(f, t.models) : AnalysisOk(t, data)
  \/ \E t \in tasks, status \in Statuses, body \in ErrorBodies :
       AnalysisHttpError(t, status, body)
  \/ \E t \in tasks : AnalysisNetworkError(t)
LoopResumes == \E t \in tasks : LoopContinue(t)
BatchAdvances == FileReadSettles \/ AnalysisSettles \/ LoopResumes
\* The setup modal's open and close buttons write showSetupModal alone, a
\* flag no step of a batch reads; the progress of a batch is checked over
\* the remaining operations.
NextLive ==
  \/ MountEffect
  \/ ClickCheckConnection
  \/ \E t \in tasks, models \in ModelLists : FetchModelsOk(t, models)
  \/ \E t \in tasks, status \in Statuses, body \in ErrorBodies :
       FetchModelsHttpError(t, status, body)
  \/ \E t \in tasks : FetchModelsNetworkError(t)
  \/ \E m \in ModelNames : ToggleModel(m)
  \/ \E files \in Batches : DropFiles(files)
  \/ FileReadSettles
  \/ AnalysisSettles
  \/ LoopResumes
SpecLive == Init /\ [][NextLive]_vars /\ WF_vars(BatchAdvances)
\* the pipeline with its handlers also called directly
NextHandler ==
  \/ Next
  \/ \E files \in Batches : InvokeHandleImagesUpload(files)
  \/ \E threw \in BOOLEAN : InvokeGeneratePdfReport(threw)

SpecHandler == Init /\ [][NextHandler]_vars

\* the report renderer on its own, over every shape of input
NextPdf ==
  \/ \E v \in {"App", "ReportPage"} : BeginReport(v)
  \/ \E taken \in BOOLEAN, items \in 0..3 : PdfPerformance(taken, items)
  \/ PdfSummary
  \/ PdfJourneyHeader
  \/ \E n \in 1..MaxLines : PdfJourneyStep(n)
  \/ \E present, unreadable \in BOOLEAN, h \in ImgHeights : PdfImage(present, h, unreadable)
  \/ \E present \in BOOLEAN, t, e \in 0..MaxLines : PdfOcr(present, t, e)
  \/ \E entries \in 0..MaxAnalyses : PdfAnalysesHeader(entries)
  \/ \E shape \in Shapes, lines \in 1..MaxLines, side \in BOOLEAN, fields \in 0..MaxFields :
       PdfAnalysisEntry(shape, lines, side, fields)
  \/ \E preview \in BOOLEAN : PdfFinish(preview)
  \/ ExecCheck
  \/ ExecPlace
  \/ ExecSkip
  \/ ExecThrow

SpecPdf == Init /\ [][NextPdf]_vars

\* formatKeyForPdf on its own, over every key
InitKeys ==
  /\ InitApp /\ InitPdfIdle /\ InitErrIdle /\ InitFieldIdle /\ InitUrlIdle /\ InitOutlineIdle
  /\ InitRateIdle /\ InitTimeIdle
  /\ key \in Keys
  /\ labels = <<>>
NextKeys == FormatKey
SpecKeys == InitKeys /\ [][NextKeys]_vars

\* the two failure paths on their own, over every response
InitErrors ==
  /\ InitApp /\ InitPdfIdle /\ InitKeyIdle /\ InitFieldIdle /\ InitUrlIdle /\ InitOutlineIdle
  /\ InitRateIdle /\ InitTimeIdle
  /\ response \in Responses
  /\ errMessage = Null
NextErrors == FetchModelsFails \/ AnalysisFails
SpecErrors == InitErrors /\ [][NextErrors]_vars

\* the text of one model's analysis on its own, over every analysis
InitFields ==
  /\ InitApp /\ InitPdfIdle /\ InitKeyIdle /\ InitErrIdle /\ InitUrlIdle /\ InitOutlineIdle
  /\ InitRateIdle /\ InitTimeIdle
  /\ renderer \in {"App", "ReportPage"}
  /\ resultItem \in ResultItems
  /\ fieldPos = 0
  /\ modelText = <<>>
NextFields == RenderModel \/ RenderField
SpecFields == InitFields /\ [][NextFields]_vars

\* the Ollama URL over sessions, starting from any stored item
InitUrl ==
  /\ InitApp /\ InitPdfIdle /\ InitKeyIdle /\ InitErrIdle /\ InitFieldIdle /\ InitOutlineIdle
  /\ InitRateIdle /\ InitTimeIdle
  /\ storage \in StoredItems
  /\ ollamaUrl = InitialOllamaUrl(storage)
  /\ persistPending = TRUE
  /\ lastEdit = NoStoredItem
  /\ sessionStart = [edited |-> FALSE, item |-> storage]
NextUrl ==
  \/ \E value \in UrlTexts : EditOllamaUrl(value)
  \/ PersistOllamaUrl
  \/ NewSession
SpecUrl == InitUrl /\ [][NextUrl]_vars

\* the outline of a report, over every input
InitOutline ==
  /\ InitApp /\ InitPdfIdle /\ InitKeyIdle /\ InitErrIdle /\ InitFieldIdle /\ InitUrlIdle
  /\ InitRateIdle /\ InitTimeIdle
  /\ reportInput \in ReportInputs
  /\ outlinePc = At("title", 0)
  /\ outline = <<>>
NextOutline ==
  \/ OutlineTitle
  \/ OutlinePerformance
  \/ OutlineSummary
  \/ OutlineJourney
  \/ OutlineImage
  \/ OutlineOcr
  \/ OutlineAnalyses
  \/ OutlineAnalysis
  \/ OutlineFinish
SpecOutline == InitOutline /\ [][NextOutline]_vars

\* the success rate and the status icons of one report, over every list
\* of analyses
InitRate ==
  /\ InitApp /\ InitPdfIdle /\ InitKeyIdle /\ InitErrIdle /\ InitFieldIdle /\ InitUrlIdle /\ InitTimeIdle
  /\ InitOutlineIdle
  /\ reportAnalyses \in AnalysesGiven
  /\ ratePc = 0
  /\ successfulAnalyses = <<>>
  /\ statusIcons = <<>>
NextRate == CountSuccessful \/ DrawStatus
SpecRate == InitRate /\ [][NextRate]_vars

\* the timing record over one session: the fetch at mount, then one batch
InitTimes ==
  /\ InitApp /\ InitPdfIdle /\ InitKeyIdle /\ InitErrIdle /\ InitFieldIdle /\ InitUrlIdle
  /\ InitOutlineIdle /\ InitRateIdle
  /\ processingTimes = EmptyTimes
  /\ recordedFor = EmptyTimes
  /\ now = 1
  /\ timed = Timed("mount", 0, 0, 0, 0, 0, 0)
NextTimes ==
  \/ TimeFetchStart
  \/ TimeFetchSettles
  \/ \E n \in 1..MaxFiles : TimeDropFiles(n)
  \/ TimeNextFile
  \/ TimeReadOk
  \/ TimeReadFails
  \/ \E processing_time \in ProcessingSeconds : TimeResponseOk(processing_time)
  \/ TimeResponseFails
  \/ TimeBatchEnds
SpecTimes == InitTimes /\ [][NextTimes]_vars

\* ------------------------------------------------------- claims: helpers
EventsOf(ev) == SelectSeq(log, LAMBDA e : e.ev = ev)
Count(ev, pos) == Cardinality({k \in 1..Len(log) : log[k].ev = ev /\ log[k].pos = pos})
Completed(pos, upTo) ==
  \E j \in 1..upTo : log[j].pos = pos /\ log[j].ev \in {"ok", "fail"}

\* the step in which handleImagesUpload leaves its loop and returns
BatchCompletes == BatchTasks # {} /\ BatchTasks' = {}

\* a result returned by processSingleImage and not yet appended
PendingResult == \E t \in BatchTasks : t.pc = "returned" /\ t.result # NoResult

\* C1: with no model selected, handleImagesUpload starts nothing (no file
\* read, no request, the result list and the loading flag untouched) and
\* sets an error whose step is "Setup".
C1_EmptySelectionRejected ==
  [][(Len(selectedOllamaModels) = 0 /\ \E files \in Batches : handleImagesUpload(files))
       => /\ error'.step = "Setup"
          /\ tasks' = tasks
          /\ log' = log
          /\ checkResults' = checkResults
          /\ isLoading' = isLoading]_vars

C1_Witness == error.step = "Setup" /\ tasks = {} /\ selectedOllamaModels = <<>>

\* C2: at most one analysis request is in flight, one file of the batch
\* is in processSingleImage at a time, and file i+1 is started and
\* requested only after file i has ended in a result or a failure.
C2_SequentialBatch ==
  /\ Cardinality(InFlight) <= 1
  /\ Cardinality(BatchTasks) <= 1
  /\ \A k \in 1..Len(log) :
       (log[k].ev \in {"start", "request"} /\ log[k].pos > 1)
         => Completed(log[k].pos - 1, k - 1)

C2_Witness == \E t \in InFlight : t.i = 2 /\ Completed(1, Len(log))

\* C3: isLoading is a gate: at most one operation (batch or model fetch)
\* is in progress, and while one is, isLoading is set and the upload, the
\* refresh and the model selector controls are disabled.
C3_LoadingGate ==
  /\ Cardinality(tasks) <= 1
  /\ tasks # {} => (isLoading /\ UploadDisabled /\ RefreshDisabled /\ SelectorDisabled)

C3_Witness ==
  \E t \in BatchTasks : t.pc = "fetching" /\ isLoading /\ selectedOllamaModels # <<>>

\* C4: batch of 3 files, the 2nd fails with a network error, the 1st and
\* 3rd succeed: when the 2nd fails its error is the current error; when the
\* batch completes the list holds image 1 then image 3, loading has ended
\* and the error of image 2 is no longer set.
NetworkFailure ==
  ProcessingError("Check Processing", <<"Failed to process check: ">> \o NetworkErrorMessage)

SecondFailed ==
  /\ Len(batchFiles) = 3
  /\ Len(log) = 6
  /\ log[3] = Event("ok", 1, "")
  /\ log[6] = Event("fail", 2, "network")

SecondOfThreeFailed ==
  /\ Len(batchFiles) = 3
  /\ Len(log) = 9
  /\ log[3] = Event("ok", 1, "")
  /\ log[6] = Event("fail", 2, "network")
  /\ log[9] = Event("ok", 3, "")

C4_SecondOfThreeFails ==
  /\ [](SecondFailed => error = NetworkFailure)
  /\ [](SecondOfThreeFailed => error = NoError)
  /\ [][(SecondOfThreeFailed /\ BatchCompletes) =>
          /\ Len(checkResults') = 2
          /\ checkResults'[1].imageSrc = DataUrl(batchFiles[1])
          /\ checkResults'[1].ocrTesseract = <<"tesseract", batchFiles[1]>>
          /\ checkResults'[2].imageSrc = DataUrl(batchFiles[3])
          /\ checkResults'[2].ocrTesseract = <<"tesseract", batchFiles[3]>>
          /\ error' = NoError
          /\ ~isLoading']_vars

C4_Witness ==
  /\ SecondOfThreeFailed
  /\ Len(checkResults) = 1
  /\ PendingResult

\* C5: the result list changes only by being emptied when a batch is
\* accepted or by one CheckResult appended at its end; during a batch it
\* holds the images of the batch that succeeded, in submission order (the
\* one returned last may still wait to be appended), and when the batch
\* completes it holds all of them.
Succeeded == EventsOf("ok")
SucceededImages == [k \in 1..Len(Succeeded) |-> DataUrl(batchFiles[Succeeded[k].pos])]
Collected ==
  SubSeq(SucceededImages, 1, Len(Succeeded) - (IF PendingResult THEN 1 ELSE 0))
ImagesOf(results) == [k \in 1..Len(results) |-> results[k].imageSrc]

C5_AppendOnly ==
  /\ [][checkResults' # checkResults =>
          \/ /\ checkResults' = <<>>
             /\ log' = <<Event("start", 1, "")>>
          \/ /\ Len(checkResults') = Len(checkResults) + 1
             /\ SubSeq(checkResults', 1, Len(checkResults)) = checkResults
             /\ BatchTasks # {}]_vars
  /\ [](BatchTasks # {} => ImagesOf(checkResults) = Collected)
  /\ [][BatchCompletes => ImagesOf(checkResults') = SucceededImages]_vars

C5_Witness ==
  /\ BatchTasks # {}
  /\ Len(checkResults) = 2
  /\ checkResults[1].imageSrc # checkResults[2].imageSrc
  /\ \E k \in 1..Len(log) : log[k].ev = "fail"

\* C6: whatever the outcome of earlier files, every file of the batch is
\* started exactly once, in submission order, with at most one request, and
\* a batch completes only when all its files have been attempted.
C6_NoAbortNoRetry ==
  /\ [](/\ \A k \in 1..Len(EventsOf("start")) : EventsOf("start")[k].pos = k
        /\ \A pos \in 1..Len(batchFiles) : Count("request", pos) <= 1
        /\ Len(EventsOf("start")) <= Len(batchFiles))
  /\ [][BatchCompletes =>
          \A pos \in 1..Len(batchFiles) :
            /\ Count("start", pos) = 1
            /\ Count("ok", pos) + Count("fail", pos) = 1]_vars

C6_Witness ==
  /\ Len(batchFiles) = 3
  /\ Count("fail", 1) = 1 /\ Count("fail", 2) = 1
  /\ Count("request", 3) = 1
  /\ \E t \in BatchTasks : t.i = 3 /\ t.pc = "returned"

\* C7: the error panel and the result list are never on screen together;
\* results are on screen only with no error set, isLoading false and no
\* operation in progress.
C7_ErrorHidesResults ==
  /\ ~(ErrorPanelShown /\ ResultsShown)
  /\ ResultsShown => (error = NoError /\ ~isLoading /\ tasks = {})

C7_Witness ==
  /\ ErrorPanelShown
  /\ Len(checkResults) > 0
  /\ ~isLoading

\* C8: an error left by an earlier operation is never still set once a
\* later operation (model fetch, image submission, PDF generation) has
\* started its work.
C8_NewOperationClearsError == ~errorStale

\* C9: no block is placed at the cursor with its bottom edge (cursor plus
\* height) below pageHeight - margin.
C9_PaginationInvariant == lastPlaced.y + lastPlaced.h <= pageHeight - margin

\* C10: checkAndAddNewPage(h) adds exactly one page and resets the cursor
\* to margin when y + h > pageHeight - margin; otherwise (y + h equal to
\* the limit included) it changes neither; pages are added nowhere else.
CheckStep == todo # <<>> /\ Head(todo).op = "check" /\ todo' = Tail(todo)

C10_LookAhead ==
  [][/\ CheckStep =>
          IF currentY + Head(todo).h > 297 - 15
          THEN pageCount' = pageCount + 1 /\ currentY' = 15
          ELSE pageCount' = pageCount /\ currentY' = currentY
     /\ (pageCount' # pageCount /\ pdfPc.section # "idle") =>
          CheckStep /\ currentY + Head(todo).h > 297 - 15]_vars

C10_Witness ==
  /\ lastCheck.h > 0
  /\ lastCheck.y + lastCheck.h = pageHeight - margin
  /\ ~lastCheck.paged
  /\ pageCount = 1

\* C11: formatting a key that is already formatted changes nothing:
\* formatKeyForPdf(formatKeyForPdf(k)) = formatKeyForPdf(k).
C11_Idempotent == Len(labels) = 2 => labels[2] = labels[1]

\* the rule as stated: "IBAN" for a key that is "iban" whatever its case;
\* otherwise a space before each capital that is not the first character,
\* underscores as spaces, trimmed, first letter of each word capitalized
RECURSIVE RuleSpaced(_, _)
RuleSpaced(k, i) ==
  IF i > Len(k) THEN ""
  ELSE (IF i > 1 /\ IsCapital(Char(k, i)) THEN " " ELSE "")
       \o (IF Char(k, i) = "_" THEN " " ELSE Char(k, i))
       \o RuleSpaced(k, i + 1)
RECURSIVE RuleCapitalized(_, _)
RuleCapitalized(w, i) ==
  IF i > Len(w) THEN ""
  ELSE (IF i = 1 \/ Char(w, i - 1) = " " THEN UpperChar(Char(w, i)) ELSE Char(w, i))
       \o RuleCapitalized(w, i + 1)
StatedRule(k) ==
  IF \A i \in 1..4 : Len(k) = 4 /\ LowerChar(Char(k, i)) = Char("iban", i)
  THEN "IBAN"
  ELSE RuleCapitalized(trim(RuleSpaced(k, 1)), 1)

\* C12: formatKeyForPdf gives what the stated rule gives for every key, and
\* "amount_number" -> "Amount Number", "iban" -> "IBAN",
\* "checkNumber" -> "Check Number".
C12_StatedRule ==
  labels # <<>> =>
    /\ labels[1] = StatedRule(key)
    /\ key = "amount_number" => labels[1] = "Amount Number"
    /\ key = "iban" => labels[1] = "IBAN"
    /\ key = "checkNumber" => labels[1] = "Check Number"

C12_Witness == key = "checkNumber" /\ labels # <<>> /\ labels[1] = "Check Number"

\* the classifier as stated: a term occurs in a message when some stretch
\* of the message equals it letter by letter, case aside
OccursIn(term, m) ==
  \E i \in 1..(Len(m) - Len(term) + 1) :
    \A j \in 1..Len(term) : LowerChar(Char(m, i + j - 1)) = Char(term, j)
StatedSetupIssue(m) ==
  \/ \E term \in {"tesseract", "easyocr", "pytesseract", "ocr tool"} : OccursIn(term, m)
  \/ (OccursIn("setup", m) /\ OccursIn("incomplete", m))

\* C13: a failure message switches the setup instructions on exactly when
\* it contains, case aside, one of "tesseract", "easyocr", "pytesseract",
\* "ocr tool", or both "setup" and "incomplete"; "Tesseract not found" and
\* "Setup incomplete: OCR missing" do, "Model timeout" does not.
C13_SetupClassifier ==
  errMessage # Null =>
    /\ showSetupModal = StatedSetupIssue(Text(errMessage))
    /\ Text(errMessage) \in {"Tesseract not found", "Setup incomplete: OCR missing"}
         => showSetupModal
    /\ Text(errMessage) = "Model timeout" => ~showSetupModal

C13_Witness ==
  /\ errMessage = <<"TesserACT">>
  /\ showSetupModal

\* C14: for a non-2xx response of either endpoint the derived message is
\* not empty; it is the body's detail field when the body has one, else
\* (analysis endpoint) its message field when it has one, else a text that
\* mentions the status code.
Present(field) == field # Null /\ Text(field) # ""

EntryText(e) == e.label \o Text(e.lines)
NonEmpty(value) == value.type # "null" /\ value.type # "undefined" /\ value # Str("")
Analysed ==
  /\ renderer # "none"
  /\ resultItem.hasAnalysis /\ ~Truthy(resultItem.error)
  /\ fieldPos > Len(resultItem.entries)
EntriesFor(k) ==
  {i \in 1..Len(modelText) : includes(EntryText(modelText[i]), formatKeyForPdf(k) \o ": ")}
Mentions(k, value) ==
  {i \in 1..Len(modelText) :
     includes(EntryText(modelText[i]), formatKeyForPdf(k) \o ": " \o String(value))}

\* C15 as stated: for a model analysis with analysis data and no error, the
\* text of the model holds the formatted key and the string-coerced value of
\* every field that is neither null nor empty exactly once, and no entry for
\* a field that is null, undefined or empty
C15_EveryField ==
  Analysed =>
    \A i \in 1..Len(resultItem.entries) :
      LET e == resultItem.entries[i]
      IN  IF NonEmpty(e.value)
          THEN Cardinality(Mentions(e.key, e.value)) = 1
          ELSE EntriesFor(e.key) = {}

\* C15 amended: the same for every field but a `side` of "Unknown" under
\* the renderer of App.tsx, which has no entry
C15_FieldEntries ==
  Analysed =>
    \A i \in 1..Len(resultItem.entries) :
      LET e == resultItem.entries[i]
      IN  IF renderer = "App" /\ e.key = "side" /\ e.value = Str("Unknown")
          THEN EntriesFor(e.key) = {}
          ELSE IF NonEmpty(e.value)
          THEN Cardinality(Mentions(e.key, e.value)) = 1
          ELSE EntriesFor(e.key) = {}

\* an analysis with an unknown side, a wrapped number and a null field is
\* rendered by App.tsx: the model line and one entry
C15_Witness ==
  /\ Analysed /\ renderer = "App"
  /\ resultItem.entries = <<[key |-> "side", value |-> Str("Unknown")],
                            [key |-> "amount_number", value |-> Num(1250)],
                            [key |-> "iban", value |-> NullValue]>>
  /\ Len(modelText) = 2
  /\ modelText[2] = TextEntry("Amount Number: ", <<"1250">>)

\* C16: an exception raised during report assembly is caught and surfaced
\* as a ProcessingError with step "PDF Generation"; the download is
\* triggered only once every section has been assembled, so a failed
\* generation saves no file; the loading/generating flag is reset in both
\* outcomes
C16_PdfFailure ==
  /\ pdfPc.section = "failed" => error = PdfError /\ ~saved
  /\ saved => pdfPc.section = "done"
  /\ pdfPc.section \in {"failed", "done"} => ~isLoading /\ ~isGeneratingPdf

\* C17 as stated: once the effect has run the stored value is the current
\* URL; a session in which nothing was typed yet shows the last value ever
\* typed; a session that found nothing stored shows the default
C17_RoundTrip ==
  /\ ~persistPending => storage = Item(ollamaUrl)
  /\ ~sessionStart.edited /\ lastEdit.present => ollamaUrl = lastEdit.value
  /\ ~sessionStart.edited /\ ~sessionStart.item.present => ollamaUrl = DefaultOllamaUrl

\* C17 amended: the same, but a session that follows an edit to the empty
\* string shows the default
C17_RoundTripNonEmpty ==
  /\ ~persistPending => storage = Item(ollamaUrl)
  /\ ~sessionStart.edited /\ lastEdit.present =>
       ollamaUrl = IF lastEdit.value = "" THEN DefaultOllamaUrl ELSE lastEdit.value
  /\ ~sessionStart.edited /\ ~sessionStart.item.present => ollamaUrl = DefaultOllamaUrl

\* a new session after the field was cleared, its mount effect done
C17_Witness ==
  /\ lastEdit = Item("") /\ ~sessionStart.edited /\ sessionStart.item = Item("")
  /\ ollamaUrl = DefaultOllamaUrl /\ storage = Item(DefaultOllamaUrl)

\* a 200 response of the model list arrives
FetchSucceeds == \E t \in tasks, models \in ModelLists : FetchModelsOk(t, models)

RetainableErrors ==
  {ModelFetchError(m) : m \in FailureMessages}
    \cup {CheckProcessingError(m) : m \in FailureMessages}
    \cup {SetupError, PdfError, ProcessingError("Image Upload", <<"Failed to read file.">>)}
SetupIssueErrors == {e \in RetainableErrors : IsSetupIssue(e.message)}
IsSetupIssueError(e) ==
  IF e \in RetainableErrors THEN e \in SetupIssueErrors ELSE IsSetupIssue(e.message)

\* C19 as stated: while the retained error's message is classified as a
\* setup issue the alert panel is hidden and the setup instructions are
\* shown; any other retained error is shown in the alert panel
C19_SetupIssueRouting ==
  error # NoError =>
    IF IsSetupIssueError(error) THEN ~ErrorPanelShown /\ SetupPanelShown
    ELSE ErrorPanelShown

\* C19 amended: at the step that retains an error whose message is
\* classified as a setup issue the setup instructions are shown and the
\* alert panel is hidden; the step that retains any other error leaves the
\* setup instructions as they were, and the error is in the alert panel
\* exactly when they are closed
C19_RoutingWhenRetained ==
  [][error' # error /\ error' # NoError =>
       IF IsSetupIssueError(error')
       THEN SetupPanelShown' /\ ~ErrorPanelShown'
       ELSE /\ SetupPanelShown' = SetupPanelShown
            /\ ErrorPanelShown' <=> ~SetupPanelShown]_vars

\* the batch has ended on a setup issue: its error is retained with the
\* setup instructions open and the alert panel hidden
C19_Witness ==
  /\ error # NoError /\ error.step = "Check Processing" /\ IsSetupIssueError(error)
  /\ ~isLoading /\ SetupPanelShown /\ ~ErrorPanelShown

\* the place of a heading in the stated order (0: a section the order
\* does not name), and the subsections drawn for a section
SectionRank(h) ==
  CASE h.section = "title" -> 1
    [] h.section \in {"performance", "journey"} -> 2
    [] h.section = "image" -> 3
    [] h.section = "ocr" -> 4
    [] h.section = "analysis" -> 5
    [] OTHER -> 0
Subsections(section) ==
  LET subs == SelectSeq(outline, LAMBDA h : h.section = section /\ h.sub # "")
  IN  [i \in 1..Len(subs) |-> subs[i].sub]

\* C20: the report opens with the title, its sections come in the order
\* title, journey / timing, image, OCR text, model analyses, the OCR
\* section has one subsection for each of Tesseract and EasyOCR that
\* returned text, and there is one subsection per model analysis in the
\* order of llmAnalyses
C20_SectionOrder ==
  /\ outline # <<>> => outline[1].section = "title"
  /\ \A i, j \in 1..Len(outline) :
       i < j /\ SectionRank(outline[i]) > 0 /\ SectionRank(outline[j]) > 0
         => SectionRank(outline[i]) <= SectionRank(outline[j])
  /\ outlinePc = At("done", 0) =>
       /\ Subsections("ocr") =
            (IF reportInput.tesseract THEN <<"Tesseract">> ELSE <<>>)
              \o (IF reportInput.easyocr THEN <<"EasyOCR">> ELSE <<>>)
       /\ Subsections("analysis") = reportInput.analyses

\* C21: when the FileReader fails on a file, no analysis request is sent
\* for that file, the error set is the "Image Upload" one, nothing is
\* returned for the file and the result list gains no entry for it
ReadFailed(pos) == \E k \in 1..Len(log) : log[k] = Event("fail", pos, "read")
ReadJustFailed == log # <<>> /\ log[Len(log)].why = "read"

C21_EncodingFailureAborts ==
  /\ [](\A pos \in 1..Len(batchFiles) :
          ReadFailed(pos) => Count("request", pos) = 0 /\ Count("ok", pos) = 0)
  /\ [](ReadJustFailed =>
          /\ error = ProcessingError("Image Upload", <<"Failed to read file.">>)
          /\ InFlight = {}
          /\ ~PendingResult)
  /\ [][ReadJustFailed => Len(checkResults') <= Len(checkResults)]_vars
  /\ [](BatchTasks # {} => Len(checkResults) <= Len(EventsOf("ok")))

\* the second file of a batch could not be read, after the first succeeded
C21_Witness ==
  /\ ReadJustFailed /\ log[Len(log)].pos = 2
  /\ Len(checkResults) = 1
  /\ error.step = "Image Upload"

\* C22: every invocation of a batch, and so every analysis request it
\* sends, carries a non-empty list of model names equal to the selection,
\* and the selection does not change while a batch is in progress
C22_RequestsCarrySelection ==
  /\ [](\A t \in BatchTasks : t.models # <<>> /\ t.models = selectedOllamaModels)
  /\ [][BatchTasks # {} => selectedOllamaModels' = selectedOllamaModels]_vars

\* the request for the second file is in flight with the selection
C22_Witness ==
  \E t \in InFlight :
    t.i = 2 /\ t.models = selectedOllamaModels /\ Len(selectedOllamaModels) = 1

\* C23: a 2xx response with per-model errors is a success: the value
\* returned for the image holds every analysis of the response, failed
\* models included, no error is set for the image, and the value is
\* appended to the result list as it is
HasModelError(analyses) == \E k \in 1..Len(analyses) : analyses[k].error # Null
Returned == {t \in BatchTasks : t.pc = "returned" /\ t.result # NoResult}

C23_ModelErrorsAreSuccess ==
  /\ [](\A t \in Returned :
          LET f == t.files[t.i]
              data == CheckAnalysisResponse(f, t.models, f % 2 = 0)
          IN  /\ t.result.llmAnalyses = data.llm_analyses
              /\ t.result.imageSrc = DataUrl(f)
              /\ Len(t.result.llmAnalyses) = Len(t.models)
              /\ error = NoError)
  /\ [][\A t \in Returned : t \notin tasks' =>
          /\ checkResults' = Append(checkResults, t.result)
          /\ error' = NoError]_vars

\* a result with a failed model is in the list and no error is set
C23_Witness ==
  /\ error = NoError /\ ~isLoading
  /\ \E k \in 1..Len(checkResults) : HasModelError(checkResults[k].llmAnalyses)

\* C24: a batch in progress always ends: with every file read and every
\* request settling, a state follows in which no batch is in progress,
\* isLoading is false and the upload control is enabled
C24_BatchCompletes ==
  (BatchTasks # {}) ~> (BatchTasks = {} /\ ~isLoading /\ ~UploadDisabled)

\* a batch of three files is at its last file after a failure and a success
C24_Witness ==
  /\ \E t \in BatchTasks : t.i = 3 /\ t.pc = "reading"
  /\ Count("fail", 1) = 1 /\ Count("ok", 2) = 1

FetchFailsStep ==
  \/ \E t \in tasks, status \in Statuses, body \in ErrorBodies :
       FetchModelsHttpError(t, status, body)
  \/ \E t \in tasks : FetchModelsNetworkError(t)
FetchSettles == \E t \in FetchTasks : t \notin tasks'

\* C25: a failed fetchModels (non-2xx response or network error) sets an
\* error whose step is "Model Fetch" and leaves the available model list
\* and the selection as they were; the model list changes only in a
\* successful fetch; after either outcome isLoading is false.
C25_FailedFetchKeepsModels ==
  /\ [][FetchFailsStep =>
          /\ error' # NoError /\ error'.step = "Model Fetch"
          /\ availableOllamaModels' = availableOllamaModels
          /\ selectedOllamaModels' = selectedOllamaModels]_vars
  /\ [][availableOllamaModels' # availableOllamaModels => FetchSucceeds]_vars
  /\ [][FetchSettles => ~isLoading']_vars

\* a refresh has failed after an earlier fetch had listed and selected a model
C25_Witness ==
  /\ error # NoError /\ error.step = "Model Fetch"
  /\ ~isLoading /\ FetchTasks = {}
  /\ availableOllamaModels # <<>> /\ selectedOllamaModels # <<>>

LastEvent == log[Len(log)]
FileStarts == Len(log') = Len(log) + 1 /\ log'[Len(log')].ev = "start"

\* C26: at the step that completes a batch an error is set if and only if
\* the last file failed, and it is that file's error; every file's start
\* clears the error an earlier file left; a retained error hides the
\* collected results and stays as it is while nothing starts or settles.
C26_ErrorRetainedIffLastFailed ==
  /\ [][BatchCompletes =>
          /\ (error' # NoError) <=> (LastEvent.ev = "fail")
          /\ LastEvent.pos = Len(batchFiles)
          /\ error' # NoError =>
               /\ error'.step = IF LastEvent.why = "read" THEN "Image Upload"
                                ELSE "Check Processing"
               /\ ~ResultsShown'
               /\ checkResults' = checkResults]_vars
  /\ [][FileStarts => error' = NoError]_vars
  /\ [][tasks' = tasks => error' = error]_vars

\* a batch has ended with its last file unreadable after an earlier success
C26_Witness ==
  /\ ~isLoading /\ tasks = {}
  /\ Len(checkResults) >= 1
  /\ error # NoError /\ error.step = "Image Upload"

\* the single-result fields that are set all come from submitted image f
FromImage(f) ==
  /\ uploadedImage \in {Null, DataUrl(f)}
  /\ ocrTesseract \in {Null, CheckAnalysisResponse(f, <<>>, FALSE).raw_ocr_tesseract}
  /\ ocrEasyOcr \in {Null, CheckAnalysisResponse(f, <<>>, FALSE).raw_ocr_easyocr}
  /\ llmAnalyses \in
       {Null} \cup {data.llm_analyses : data \in UNION {OkResponses(f, ms) : ms \in ModelLists}}

\* C27: in every reachable state the single-result fields handed to the
\* report (uploadedImage, ocrTesseract, ocrEasyOcr, llmAnalyses) originate
\* from one and the same submitted image.
C27_SingleResultOneImage == \E f \in FileIds : FromImage(f)

Drawn(icon) == Cardinality({k \in 1..Len(statusIcons) : statusIcons[k] = icon})

\* C28: once a report is drawn, the number of analyses counted as
\* successful in its success rate equals the number of analyses drawn with
\* the success status, whatever the error fields are (null, absent, empty
\* or a text).
C28_SuccessCountMatchesStatus ==
  ratePc = -1 => Len(successfulAnalyses) = Drawn("success")

\* C29: in every reachable state every selected model name is the name of
\* a model in the available model list.
C29_SelectionWithinAvailable ==
  \A k \in 1..Len(selectedOllamaModels) :
    Includes(availableOllamaModels, selectedOllamaModels[k])

Submits == timed'.at = "reading" /\ timed.at # "reading"
WellFormed(t) == (t.end = 0 /\ t.duration = 0) \/ t.duration = t.end - t.start

\* C30: the step that submits an image leaves in ProcessingTimes only the
\* start of that image's imageUpload (the modelFetch reading and the
\* totalProcessing start just recorded are gone); when the batch has ended
\* every phase in the record was recorded for the last image; and every
\* recorded phase has end = 0 and duration = 0, or duration = end - start.
C30_TimesOfLastImage ==
  /\ [][Submits =>
          /\ DOMAIN processingTimes' = {"imageUpload"}
          /\ processingTimes'["imageUpload"] =
               [start |-> timed'.imageUploadStart, end |-> 0, duration |-> 0]]_vars
  /\ [](timed.at \in {"reading", "fetching", "returned", "done"} =>
          \A phase \in DOMAIN processingTimes : recordedFor[phase] = timed.i)
  /\ [](\A phase \in DOMAIN processingTimes : WellFormed(processingTimes[phase]))

\* a batch of two has ended, its last image analysed with a processing_time
C30_Witness ==
  /\ timed.at = "done" /\ timed.n = 2
  /\ DOMAIN processingTimes =
       {"imageUpload", "imageProcessing", "llmProcessing", "totalProcessing"}
  /\ processingTimes["llmProcessing"].duration = 2000
  /\ processingTimes["totalProcessing"].end # 0
====
